---- MODULE Spec2Model ----
(***************************************************************************)
(* A model of the Instagram <-> Telegram bridge of itxreyanon/JxInsta.      *)
(*                                                                         *)
(* The repository holds two generations of the program:                     *)
(*   - the enhanced bot: EnhancedInstagramBot (src/unnamed/part_000, a      *)
(*     polling source listener) and EnhancedTelegramBridge                  *)
(*     (src/enhanced-bot/TelegramBridge.js);                                *)
(*   - the old bot: InstagramBot (src/old bot/bot.js, a realtime source     *)
(*     listener) and TelegramBridge (src/unnamed/part_001).                 *)
(* Both are modelled.  Every component has its own variables, its own      *)
(* initial predicate and its own next-state relation; a component's        *)
(* specification keeps the other components in their initial state.        *)
(*                                                                         *)
(* JavaScript runs one handler at a time: a handler runs without           *)
(* interruption from one await to the next.  An action of the model is     *)
(* therefore the stretch of code between two awaits; the outcome of the    *)
(* awaited collaborator call (success, failure) is chosen                  *)
(* nondeterministically when the handler resumes.                          *)
(***************************************************************************)
EXTENDS Integers, Sequences, FiniteSets, TLC

(***************************************************************************)
(* Bounds of the model.                                                    *)
(***************************************************************************)
\* Message ids are 1..MaxMsgId.
MaxMsgId == 3
\* Message timestamps are 0..MaxTimestamp.
MaxTimestamp == 3
\* A message id is dispatched to the handlers at most this many times before
\* the listeners stop delivering it (caps the dispatch counters).
MaxDispatch == 2
\* The capacity of the recent-id set.  The source sets it to 1000
\* (part_000:14, bot.js:20); the model checks the same code with a small
\* capacity so that the eviction branch is exercised.
maxProcessedMessageIds == 2

(***************************************************************************)
(* Generic helpers.                                                        *)
(***************************************************************************)
Range(s) == {s[i] : i \in 1..Len(s)}

\* Math.max on two numbers.
Max(a, b) == IF a >= b THEN a ELSE b

(***************************************************************************)
(* STATE                                                                   *)
(***************************************************************************)
VARIABLES
  generation,             \* which program runs: "enhanced" or "old"
  \* dedup window
  processedMessageIds,    \* EnhancedInstagramBot.processedMessageIds
  lastMessageCheck,       \* EnhancedInstagramBot.lastMessageCheck (high-watermark)
  dispatched,             \* id -> number of handleMessage calls (enhanced bot)
  lastAccept,             \* the last isNewMessage call: argument, state before, result
  oldProcessedMessageIds, \* InstagramBot.processedMessageIds (old bot)
  oldDispatched,          \* id -> number of handler dispatches (old bot)
  oldLastAccept,          \* the last isNewMessageById call
  delivered,              \* the ids of the messages whose send to the destination completed
  pollStart,              \* lastMessageCheck when listThreads returned for the poll under way
  \* topic mapper and forward pipeline
  welcomeMessage,         \* config.telegram.features.welcomeMessage !== false
  chatMappings,           \* thread -> topic id (NoTopic: no entry)
  store,                  \* the persisted chat records: thread -> topic id
  creatingTopics,         \* thread -> "absent" | "pending" | "null" (a settled promise)
  topicVerificationCache, \* set of [key, verdict]
  topics,                 \* the topics that exist on the destination
  nextTopicId,            \* the id the destination gives the next topic
  fw,                     \* proc -> the state of its sendToTelegram invocation
  welcomed,               \* the topics a welcome message was sent into
  \* reverse pipeline
  tempFiles,              \* the files in the temp directory
  tg,                     \* handler -> the state of its handleTelegramMessage invocation
  \* polling and re-authentication
  isRunning,              \* EnhancedInstagramBot.isRunning
  pollingInterval,        \* the polling timer is set
  polls,                  \* tick -> the state of one run of the timer callback
  sessionFile,            \* ./instagram-session.json exists
  authOutcome,            \* how the last finished handleAuthenticationError ended
  crashed,                \* the process was ended by an unhandled rejection
  \* text relay and content filter
  filters,                \* TelegramBridge.filters: the blocked terms
  relay,                  \* the last text handled: its input and what was sent
  userMappings,           \* TelegramBridge.userMappings: sender -> messageCount
  userRecords,            \* the persisted user records: sender -> messageCount
  forwards,               \* sender -> number of sendToTelegram calls for its messages
  \* bridge lifecycle
  telegramConfig,         \* config.telegram: botToken and chatId
  init,                   \* where initialize() stands
  db,                     \* this.db: connectDb() has returned a connection
  collection,             \* this.collection is set
  telegramBot,            \* this.telegramBot: the destination client exists
  listening,              \* the 'message' listener is attached to the client
  enabled,                \* this.enabled
  initFailure,            \* the initialization step that has failed, if any
  lastForward,            \* how the last sendToTelegram call passed its guard
  \* handler dispatch
  messageHandlers,        \* the number of registered message handlers
  hm,                     \* dispatcher -> the state of its handleMessage invocation
  \* shutdown
  stop,                   \* where the shutdownHandler of main stands
  heartbeat,              \* the heartbeat timer of main is set
  \* temp file names
  clock,                  \* Date.now()
  disk,                   \* temp path -> whose bytes the file holds (NoFile: no such file)
  tmp,                    \* handler -> the temp paths its media handler holds
  \* commands
  adminUsers,             \* config.admin.users
  commandRegistry,        \* ModuleManager.commandRegistry: name -> "open" | "adminOnly"
  forwarding,             \* MessageHandler.telegramBridge and config.telegram.enabled
  cm,                     \* the MessageHandler.handleMessage invocation
  \* timers
  activeTimers,           \* the intervals the runtime holds: [kind, id]
  intervals,              \* this.pollingInterval, this.messageRequestsMonitorInterval (0: unset)
  nextTimer,              \* the id of the next interval
  botCall                 \* the call of the bot under way, or the last one

dedupState == <<processedMessageIds, lastMessageCheck, dispatched, lastAccept,
                oldProcessedMessageIds, oldDispatched, oldLastAccept, delivered,
                pollStart>>
mapperState == <<welcomeMessage, chatMappings, store, creatingTopics,
                 topicVerificationCache, topics, nextTopicId, fw, welcomed>>
reverseState == <<tempFiles, tg>>
pollState == <<isRunning, pollingInterval, polls, sessionFile, authOutcome, crashed>>
relayState == <<filters, relay, userMappings, userRecords, forwards>>
lifecycleState == <<telegramConfig, init, db, collection, telegramBot, listening,
                    enabled, initFailure, lastForward>>
dispatchState == <<messageHandlers, hm>>
shutdownState == <<stop, heartbeat>>
namingState == <<clock, disk, tmp>>
commandState == <<adminUsers, commandRegistry, forwarding, cm>>
timerState == <<activeTimers, intervals, nextTimer, botCall>>

vars == <<generation, dedupState, mapperState, reverseState, pollState,
          relayState, lifecycleState, dispatchState, shutdownState,
          namingState, commandState, timerState>>

\* What the actions of one component leave alone.
notDedup == <<mapperState, reverseState, pollState, relayState, lifecycleState,
              dispatchState, shutdownState,
              namingState, commandState, timerState>>
notMapper == <<dedupState, reverseState, pollState, relayState, lifecycleState,
               dispatchState, shutdownState,
               namingState, commandState, timerState>>
notReverse == <<dedupState, mapperState, pollState, relayState, lifecycleState,
                dispatchState, shutdownState,
                namingState, commandState, timerState>>
notPoll == <<dedupState, mapperState, reverseState, relayState, lifecycleState,
             dispatchState, shutdownState,
             namingState, commandState, timerState>>
notRelay == <<dedupState, mapperState, reverseState, pollState, lifecycleState,
              dispatchState, shutdownState,
              namingState, commandState, timerState>>
notLifecycle == <<dedupState, mapperState, reverseState, pollState, relayState,
                  dispatchState, shutdownState,
                  namingState, commandState, timerState>>
notDispatch == <<dedupState, mapperState, reverseState, pollState, relayState,
                 lifecycleState, shutdownState,
                 namingState, commandState, timerState>>
notShutdown == <<dedupState, mapperState, reverseState, relayState, lifecycleState,
                 dispatchState,
                 namingState, commandState, timerState>>
notNaming == <<dedupState, mapperState, reverseState, pollState, relayState,
               lifecycleState, dispatchState, shutdownState, commandState,
               timerState>>
notCommand == <<dedupState, mapperState, reverseState, pollState, relayState,
                lifecycleState, dispatchState, shutdownState, namingState,
                timerState>>
notTimer == <<dedupState, mapperState, reverseState, pollState, relayState,
              lifecycleState, dispatchState, shutdownState, namingState,
              commandState>>

(***************************************************************************)
(* DEDUP WINDOW                                                            *)
(*                                                                         *)
(* A JavaScript Set iterates in insertion order, has() does not change     *)
(* the order and add() of a held value is a no-op: the set is modelled as  *)
(* a duplicate-free sequence, oldest insertion first.                      *)
(***************************************************************************)
\* A message without an id: `!message.id` is true (undefined, null, "", 0).
NoId == 0
MsgIds == 1..MaxMsgId
Timestamps == 0..MaxTimestamp
\* The inbound messages the source can deliver: any id (or none) with any
\* numeric timestamp.
Messages == [id : MsgIds \cup {NoId}, timestamp : Timestamps]

\* Set.prototype.has
Has(ids, id) == id \in Range(ids)

\* part_000:123  `message.timestamp <= this.lastMessageCheck`
IsOld_Strict(timestamp, watermark) == timestamp < watermark
IsOld(timestamp, watermark) == timestamp <= watermark

\* part_000:128  `Math.max(this.lastMessageCheck, message.timestamp)`
AdvanceWatermark_Keep(watermark, timestamp) == watermark
AdvanceWatermark(watermark, timestamp) == Max(watermark, timestamp)

\* part_000:131-134, bot.js:361-367: when the set has grown past the capacity,
\* delete `values().next().value`, the value inserted first.
Evict_Newest(ids) ==
  IF Len(ids) > maxProcessedMessageIds THEN SubSeq(ids, 1, Len(ids) - 1) ELSE ids
Evict(ids) ==
  IF Len(ids) > maxProcessedMessageIds THEN Tail(ids) ELSE ids

\* part_000:119-137  EnhancedInstagramBot.isNewMessage: the result and the
\* state it leaves.
isNewMessage(ids, watermark, message) ==
  IF message.id = NoId
    THEN [result |-> FALSE, ids |-> ids, watermark |-> watermark]
  ELSE IF IsOld(message.timestamp, watermark)
    THEN [result |-> FALSE, ids |-> ids, watermark |-> watermark]
  ELSE IF Has(ids, message.id)
    THEN [result |-> FALSE, ids |-> ids, watermark |-> watermark]
  ELSE [result |-> TRUE,
        ids |-> Evict(Append(ids, message.id)),
        watermark |-> AdvanceWatermark(watermark, message.timestamp)]

\* bot.js:347-370  InstagramBot.isNewMessageById
isNewMessageById(ids, messageId) ==
  IF messageId = NoId
    THEN [result |-> TRUE, ids |-> ids]
  ELSE IF Has(ids, messageId)
    THEN [result |-> FALSE, ids |-> ids]
  ELSE [result |-> TRUE, ids |-> Evict(Append(ids, messageId))]

NoCall == [called |-> FALSE]

\* The state after the constructors (part_000:8-17, bot.js:13-21).
\* lastMessageCheck is Date.now() at construction: some timestamp.
\* The old bot keeps a lastMessageCheck too (bot.js:17) and never reads it.
DedupInit ==
  /\ generation \in {"enhanced", "old"}
  /\ processedMessageIds = <<>>
  /\ lastMessageCheck \in IF generation = "enhanced" THEN Timestamps ELSE {0}
  /\ dispatched = [i \in MsgIds |-> 0]
  /\ lastAccept = NoCall
  /\ oldProcessedMessageIds = <<>>
  /\ oldDispatched = [i \in MsgIds |-> 0]
  /\ oldLastAccept = NoCall
  /\ delivered = {}
  /\ pollStart = lastMessageCheck

\* E:226-236, O:474-506  sendSimpleMessage: the send completes, or its
\* failure is logged and null returned, which sendToTelegram (E:202-224)
\* does not look at.
Delivered(ids, id, sent) == IF sent THEN ids \cup {id} ELSE ids

\* part_000:107-110  one message of a poll: isNewMessage, and handleMessage
\* (which runs the registered handlers, part_000:139-167) when it is new;
\* `sent` is the outcome of the send the forwarding handler (E:623-631)
\* makes for the message.
CheckMessage(message, sent) ==
  LET r == isNewMessage(processedMessageIds, lastMessageCheck, message) IN
  /\ generation = "enhanced"
  /\ message.id # NoId => dispatched[message.id] < MaxDispatch
  /\ processedMessageIds' = r.ids
  /\ lastMessageCheck' = r.watermark
  /\ dispatched' = IF r.result
                     THEN [dispatched EXCEPT ![message.id] = @ + 1]
                     ELSE dispatched
  /\ lastAccept' = [called |-> TRUE, message |-> message,
                    ids |-> processedMessageIds, watermark |-> lastMessageCheck,
                    result |-> r.result]
  /\ delivered' = IF r.result THEN Delivered(delivered, message.id, sent)
                               ELSE delivered
  /\ UNCHANGED <<generation, oldProcessedMessageIds, oldDispatched, oldLastAccept,
                 pollStart>>
  /\ UNCHANGED notDedup

\* part_000:103-105  listThreads has returned the threads of a poll: the
\* loop over their messages starts.
ListThreadsReturned ==
  /\ generation = "enhanced"
  /\ pollStart # lastMessageCheck
  /\ pollStart' = lastMessageCheck
  /\ UNCHANGED <<generation, processedMessageIds, lastMessageCheck, dispatched,
                 lastAccept, oldProcessedMessageIds, oldDispatched, oldLastAccept,
                 delivered>>
  /\ UNCHANGED notDedup

\* bot.js:203-209 and 226-232: the body shared by the 'message' and the
\* 'direct' realtime handlers for an event that carries a message payload:
\* isNewMessageById, then handleMessage, which drops a message without an
\* item_id (bot.js:400-403) and otherwise runs the registered handlers.
RealtimeEvent(itemId, sent) ==
  LET r == isNewMessageById(oldProcessedMessageIds, itemId) IN
  /\ generation = "old"
  /\ itemId # NoId => oldDispatched[itemId] < MaxDispatch
  /\ oldProcessedMessageIds' = r.ids
  /\ oldDispatched' = IF r.result /\ itemId # NoId
                        THEN [oldDispatched EXCEPT ![itemId] = @ + 1]
                        ELSE oldDispatched
  /\ oldLastAccept' = [called |-> TRUE, id |-> itemId,
                       ids |-> oldProcessedMessageIds, result |-> r.result]
  /\ delivered' = IF r.result /\ itemId # NoId
                     THEN Delivered(delivered, itemId, sent)
                     ELSE delivered
  /\ UNCHANGED <<generation, processedMessageIds, lastMessageCheck, dispatched,
                 lastAccept, pollStart>>
  /\ UNCHANGED notDedup

\* bot.js:193-216  this.ig.realtime.on('message', ...)
OnRealtimeMessage == \E itemId \in MsgIds \cup {NoId}, sent \in BOOLEAN :
  RealtimeEvent(itemId, sent)

\* bot.js:219-243  this.ig.realtime.on('direct', ...)
OnRealtimeDirect == \E itemId \in MsgIds \cup {NoId}, sent \in BOOLEAN :
  RealtimeEvent(itemId, sent)

\* part_000:101-117  checkForNewMessages, one message at a time
PollMessage ==
  \E message \in Messages, sent \in BOOLEAN : CheckMessage(message, sent)

DedupNext ==
  ListThreadsReturned \/ PollMessage \/ OnRealtimeMessage \/ OnRealtimeDirect


(***************************************************************************)
(* STRINGS                                                                 *)
(*                                                                         *)
(* A string is a sequence of characters.                                   *)
(***************************************************************************)
\* The longest text, the longest blocked term, the most blocked terms.
MaxTextLen == 2
MaxTermLen == 1
MaxFilters == 2

\* White space, a letter in both cases, another letter.
Chars == {" ", "a", "A", "b"}
StringsUpTo(n) == UNION {[1..k -> Chars] : k \in 0..n}
Texts == StringsUpTo(MaxTextLen)
\* The `word` of a filter record: a non-empty string.
Terms == StringsUpTo(MaxTermLen) \ {<<>>}
FilterSets == {words \in SUBSET Terms : Cardinality(words) <= MaxFilters}

\* String.prototype.toLowerCase
toLowerCase(text) == [i \in 1..Len(text) |-> IF text[i] = "A" THEN "a" ELSE text[i]]

\* String.prototype.trim: without the white space at both ends
trim(text) ==
  LET inked == {i \in 1..Len(text) : text[i] # " "} IN
  IF inked = {} THEN <<>>
  ELSE SubSeq(text, CHOOSE i \in inked : \A j \in inked : i <= j,
                    CHOOSE i \in inked : \A j \in inked : i >= j)

\* String.prototype.startsWith
startsWith(text, word) ==
  Len(word) <= Len(text) /\ SubSeq(text, 1, Len(word)) = word

\* O:436-441, O:595-601  `for (const word of this.filters)
\*                          if (textLower.startsWith(word))`
Blocked(words, textLower) == \E word \in words : startsWith(textLower, word)

\* The event texts: msg.text of a text event is a non-empty string; <<>>
\* stands for an event without text (msg.text is undefined).
NoText == <<>>

(***************************************************************************)
(* BRIDGE LIFECYCLE                                                        *)
(*                                                                         *)
(* initialize() of EnhancedTelegramBridge (E:27-73) and of TelegramBridge  *)
(* (O:28-78), one step per awaited collaborator call, and the guard of     *)
(* sendToTelegram (E:203, O:406).                                          *)
(***************************************************************************)
\* A setting of config.telegram: absent, the placeholder of the sample
\* configuration, a string, or (the chat id) a number.
TokenSettings == {"missing", "placeholder", "string"}
ChatIdSettings == {"missing", "placeholder", "string", "number"}
TelegramConfigs == [botToken : TokenSettings, chatId : ChatIdSettings]

\* E:33, O:34  `!token || token.includes('YOUR_BOT_TOKEN') ||
\*              !this.telegramChatId || this.telegramChatId.includes('YOUR_CHAT_ID')`
\* for a chat id that has an `includes` method.
Unconfigured_TokenOnly(config) == config.botToken \in {"missing", "placeholder"}
Unconfigured(config) ==
  \/ config.botToken \in {"missing", "placeholder"}
  \/ config.chatId \in {"missing", "placeholder"}

\* E:203, O:406  `if (!this.telegramBot || !this.enabled) return;` negated
BridgeAccepts == telegramBot /\ enabled

\* E:11-25, O:12-26  the constructor; the configuration of the deployment.
LifecycleInit ==
  /\ generation \in {"enhanced", "old"}
  /\ telegramConfig \in TelegramConfigs
  /\ init = "constructed"
  /\ db = FALSE
  /\ collection = FALSE
  /\ telegramBot = FALSE
  /\ listening = FALSE
  /\ enabled = FALSE
  /\ initFailure = "none"
  /\ lastForward = "none"

\* What the steps of initialize leave alone; the filters and the mapping are
\* written by the loading steps only.
LifecycleFrame == UNCHANGED <<generation, telegramConfig>> /\ UNCHANGED notLifecycle

\* E:52-55, O:56-60  the catch block of initialize
InitializeFailed(step) ==
  /\ enabled' = FALSE
  /\ init' = "done"
  /\ initFailure' = step

\* E:27-39, O:28-40  initialize up to its first await.  Without a token or a
\* chat id it returns at once; a token that is set and a chat id that is a
\* number make `this.telegramChatId.includes` throw, outside the try block:
\* initialize rejects.
Initialize ==
  /\ init = "constructed"
  /\ init' = IF telegramConfig.botToken = "string" /\ telegramConfig.chatId = "number"
               THEN "rejected"
             ELSE IF Unconfigured(telegramConfig) THEN "done"
             ELSE "connecting"
  /\ UNCHANGED <<db, collection, telegramBot, listening, enabled, initFailure,
                 lastForward>>
  /\ LifecycleFrame

\* E:60, O:65  connectDb() has settled.
AfterConnectDb ==
  /\ init = "connecting"
  /\ \/ db' = TRUE /\ init' = "pinging" /\ UNCHANGED <<enabled, initFailure>>
     \/ InitializeFailed("database") /\ UNCHANGED db
  /\ UNCHANGED <<collection, telegramBot, listening, lastForward>>
  /\ LifecycleFrame

\* E:61-65, O:66-70  `db.command({ ping: 1 })` has settled; on success
\* this.collection is set and the first createIndex awaited.
AfterPing ==
  /\ init = "pinging"
  /\ \/ collection' = TRUE /\ init' = "indexing" /\ UNCHANGED <<enabled, initFailure>>
     \/ InitializeFailed("database") /\ UNCHANGED collection
  /\ UNCHANGED <<db, telegramBot, listening, lastForward>>
  /\ LifecycleFrame

\* E:65-72, E:40, O:70-77, O:41  the createIndex calls have settled: ensureDir
\* is awaited, or initializeDatabase rethrows.
AfterCreateIndex ==
  /\ init = "indexing"
  /\ \/ init' = "ensuringDir" /\ UNCHANGED <<enabled, initFailure>>
     \/ InitializeFailed("database")
  /\ UNCHANGED <<db, collection, telegramBot, listening, lastForward>>
  /\ LifecycleFrame

\* E:40-47, O:41-48  ensureDir has settled.  The client is constructed (the
\* constructor may throw), setupTelegramHandlers attaches the listeners, and
\* loadMappingsFromDb awaits find().
AfterEnsureDir ==
  /\ init = "ensuringDir"
  /\ \/ /\ telegramBot' = TRUE
        /\ listening' = TRUE
        /\ init' = "loading"
        /\ UNCHANGED <<enabled, initFailure>>
     \/ /\ \E step \in {"tempDir", "client"} : InitializeFailed(step)
        /\ UNCHANGED <<telegramBot, listening>>
  /\ UNCHANGED <<db, collection, lastForward>>
  /\ LifecycleFrame

\* E:79-102, E:48-51  find() has settled: the map holds the chat records, or
\* the failure is logged and swallowed (E:99-101).  The enhanced bridge then
\* sets enabled; O:49 the old bridge awaits loadFiltersFromDb.
AfterLoadMappings ==
  /\ init = "loading"
  /\ \/ chatMappings' = store /\ UNCHANGED initFailure
     \/ UNCHANGED chatMappings /\ initFailure' = "load"
  /\ IF generation = "enhanced"
       THEN enabled' = TRUE /\ init' = "done"
       ELSE UNCHANGED enabled /\ init' = "loadingFilters"
  /\ UNCHANGED <<db, collection, telegramBot, listening, lastForward>>
  /\ UNCHANGED <<generation, telegramConfig, filters, relay, userMappings,
               userRecords, forwards>>
  /\ UNCHANGED <<welcomeMessage, store, creatingTopics, topicVerificationCache,
                 topics, nextTopicId, fw, welcomed>>
  /\ UNCHANGED <<dedupState, reverseState, pollState, dispatchState, shutdownState,
                 namingState, commandState, timerState>>

\* O:184-196, O:52-55  loadFiltersFromDb: the set is emptied, then filled with
\* the `word` of every filter record; when find() fails the set stays empty
\* (logged, swallowed).  Then enabled is set.
AfterLoadFilters(words) ==
  /\ init = "loadingFilters"
  /\ filters' \in {words, {}}
  /\ enabled' = TRUE
  /\ init' = "done"
  /\ UNCHANGED <<db, collection, telegramBot, listening, initFailure, lastForward>>
  /\ UNCHANGED <<generation, telegramConfig, relay, userMappings, userRecords,
               forwards>>
  /\ UNCHANGED <<dedupState, mapperState, reverseState, pollState, dispatchState,
               shutdownState, namingState, commandState, timerState>>

\* E:202-203, O:405-406  a sendToTelegram call at its guard: it returns at
\* once, or goes on to the forward pipeline.
SendToTelegram ==
  /\ init # "constructed"
  /\ lastForward' = IF BridgeAccepts THEN "proceeded" ELSE "returned"
  /\ UNCHANGED <<init, db, collection, telegramBot, listening, enabled, initFailure>>
  /\ LifecycleFrame

LifecycleNext ==
  \/ Initialize
  \/ AfterConnectDb
  \/ AfterPing
  \/ AfterCreateIndex
  \/ AfterEnsureDir
  \/ AfterLoadMappings
  \/ \E words \in FilterSets : AfterLoadFilters(words)
  \/ SendToTelegram

(***************************************************************************)
(* TOPIC MAPPER AND FORWARD PIPELINE                                       *)
(*                                                                         *)
(* generation = "enhanced": EnhancedTelegramBridge (TelegramBridge.js);    *)
(* generation = "old": TelegramBridge (part_001).  Line numbers below are  *)
(* "E:" for TelegramBridge.js and "O:" for part_001.                       *)
(*                                                                         *)
(* Each forward process is one sendToTelegram invocation.  Its pc is the   *)
(* await it is suspended at.  A store operation takes effect when the      *)
(* handler that awaits it resumes.  A promise that settles, and an async   *)
(* function that returns without awaiting a collaborator, resume their     *)
(* awaiters in the same microtask checkpoint, before any other handler     *)
(* runs: the awaiters continue in the same step, up to their next await    *)
(* of a collaborator.                                                      *)
(* Not modelled here: the participant profiles and the profile picture,    *)
(* which do not touch the mapping.  The content filter and the payload     *)
(* of the send are modelled under TEXT RELAY AND CONTENT FILTER.           *)
(***************************************************************************)
\* The destination hands out the topic ids 1..MaxTopicId, each once.
MaxTopicId == 2

\* A thread id on which `instagramThreadId.substring` throws (E:149, O:219):
\* the source delivered a thread whose threadId is undefined.
NonStringThread == "undefined"
Threads == {"t1", "t2", NonStringThread}
\* No topic: Map.get of an absent key, or the null that getOrCreateTopic returns.
NoTopic == 0
TopicIds == 1..MaxTopicId
\* The concurrent sendToTelegram invocations.
Procs == {"p1", "p2"}

\* A forward process: pc, the thread of its message, the topic it holds (the
\* one createForumTopic returned to it, then the one getOrCreateTopic
\* returned to it), whether saveChatMapping wrote the mapping (kept while the
\* creation routine awaits the welcome message).  An invocation that has
\* returned is idle again.
Idle == [pc |-> "idle", thread |-> NonStringThread, topic |-> NoTopic,
         saved |-> FALSE]

\* The pcs at which a call is inside getOrCreateTopic.
InGetOrCreate == {"creating", "saving", "welcome", "joined"}
\* The pcs at which a call runs the creation routine (the async closure).
InCreation == {"creating", "saving", "welcome"}

InFlight(t) == {p \in Procs : fw[p].thread = t /\ fw[p].pc \in InGetOrCreate}
Creators(t) == {p \in Procs : fw[p].thread = t /\ fw[p].pc \in InCreation}

\* An invocation takes the first free process.
FirstFree(p) == fw[p].pc = "idle" /\ (p = "p2" => fw["p1"].pc # "idle")

\* Keys of the verification cache.  A Map compares keys with SameValueZero:
\* a topic id (a number) and a thread id (a string) are never the same key.
TopicKey(topicId) == [kind |-> "topic", id |-> topicId]
ThreadKey(threadId) == [kind |-> "thread", id |-> threadId]
SameKey(a, b) == a.kind = b.kind /\ a.id = b.id
CacheHas(cache, key) == \E e \in cache : SameKey(e.key, key)
CacheGet(cache, key) == (CHOOSE e \in cache : SameKey(e.key, key)).verdict
CacheSet(cache, key, verdict) ==
  {e \in cache : ~SameKey(e.key, key)} \cup {[key |-> key, verdict |-> verdict]}
CacheDelete(cache, key) == {e \in cache : ~SameKey(e.key, key)}

\* E:162, O:258  the id saved for the thread: topic.message_thread_id
SavedTopicId_First(topicId) == 1
SavedTopicId(topicId) == topicId

\* E:143, O:207  `this.creatingTopics.has(instagramThreadId)`
CreationInProgress_Never(t) == FALSE
CreationInProgress(t) == creatingTopics[t] # "absent"

NoMappings == [t \in Threads |-> NoTopic]

\* E:139, O:202  `this.chatMappings.has(instagramThreadId)`
HasMapping_Never(mappings, t) == FALSE
HasMapping(mappings, t) == mappings[t] # NoTopic

\* A fresh deployment: the constructor (E:11-25, O:12-26), an empty store and
\* a destination chat without topics.
MapperInit ==
  /\ generation \in {"enhanced", "old"}
  /\ welcomeMessage \in BOOLEAN
  /\ store = NoMappings
  /\ chatMappings = NoMappings
  /\ creatingTopics = [t \in Threads |-> "absent"]
  /\ topicVerificationCache = {}
  /\ topics = {}
  /\ nextTopicId = 1
  /\ fw = [p \in Procs |-> Idle]
  /\ welcomed = {}

\* The topic is mapped to a thread, in the map or in the store, or an
\* invocation holds it.
Referenced(mappings, records, procs, topicId) ==
  \/ \E t \in Threads : mappings[t] = topicId \/ records[t] = topicId
  \/ \E p \in Procs : procs[p].topic = topicId

\* The invocations that start sendWelcomeMessage in this step.
Welcoming == {p \in Procs : fw[p].pc # "welcome" /\ fw'[p].pc = "welcome"}

\* The destination's topics and the verification verdicts after a step.
\* Topic ids are not reused: a topic that neither the map, nor the store, nor
\* an invocation refers to is never looked at again, and neither is its
\* verdict.  The model keeps only the topics and the verdicts that are
\* referred to.
\* E:166, O:263  a routine that comes to await sendWelcomeMessage has called
\* sendMessage with the welcome text for its topic (E:190, O:343).
Collect(newTopics, newCache) ==
  /\ topics' = {x \in newTopics : Referenced(chatMappings', store', fw', x)}
  /\ welcomed' =
       {x \in welcomed \cup {fw'[p].topic : p \in Welcoming} :
          Referenced(chatMappings', store', fw', x)}
  /\ topicVerificationCache' =
       {e \in newCache : Referenced(chatMappings', store', fw', e.key.id)}

\* O:481-483 and O:497-499: the stale mapping is dropped from the map; the
\* store's deleteOne is awaited next.
DeleteStaleMapping(mappings, t) == [mappings EXCEPT ![t] = NoTopic]

\* E:207-213, O:429-449  sendToTelegram once getOrCreateTopic has returned
\* r.topic: without a topic the message is dropped; otherwise
\* sendSimpleMessage runs to its first await: E:228 sendMessage; O:477
\* verifyTopicExists, which answers from its cache (O:384-386) or awaits
\* getChat (O:389); on a cached "missing" verdict O:478-483 follows.
AfterGetOrCreate(r) ==
  LET key == TopicKey(r.topic) IN
  IF r.topic = NoTopic THEN Idle
  ELSE IF generation = "enhanced" THEN [r EXCEPT !.pc = "sending"]
  ELSE IF ~CacheHas(topicVerificationCache, key) THEN [r EXCEPT !.pc = "verifying"]
  ELSE IF CacheGet(topicVerificationCache, key) THEN [r EXCEPT !.pc = "sending"]
  ELSE [r EXCEPT !.pc = "deleting"]

\* The processes of `resumed` (a function from some processes to their new
\* state) continue in this step.
Resume(resumed) ==
  fw' = [q \in Procs |-> IF q \in DOMAIN resumed THEN resumed[q] ELSE fw[q]]

\* The map after the processes of `resumed` have continued: O:481.
MappingsAfter(mappings, resumed) ==
  [t \in Threads |->
     IF \E q \in DOMAIN resumed : resumed[q].thread = t /\ resumed[q].pc = "deleting"
       THEN NoTopic ELSE mappings[t]]

\* The creation routine of p returns `value`: its finally block removes the
\* entry (E:173-175, O:270-272), the promise settles, and p and the calls
\* awaiting the promise get the value and continue in sendToTelegram.
SettleCreation(p, value, mappings) ==
  LET t == fw[p].thread
      awaiting == {q \in Procs : q = p \/ (fw[q].thread = t /\ fw[q].pc = "joined")}
      resumed == [q \in awaiting |->
                    AfterGetOrCreate([fw[q] EXCEPT !.topic = value, !.saved = FALSE])]
  IN
  /\ creatingTopics' = [creatingTopics EXCEPT ![t] = "absent"]
  /\ Resume(resumed)
  /\ chatMappings' = MappingsAfter(mappings, resumed)

\* E:202-206, O:405-428  sendToTelegram up to getOrCreateTopic, and
\* E:138-158, O:200-237  getOrCreateTopic up to its first await.
StartForward(p, t) ==
  LET r == [Idle EXCEPT !.thread = t] IN
  /\ BridgeAccepts
  /\ FirstFree(p)
  /\ UNCHANGED <<generation, welcomeMessage, store, nextTopicId>>
  /\ UNCHANGED notMapper
  /\ IF HasMapping(chatMappings, t)
       THEN \* E:139-141, O:202-204: the cached mapping is returned
            LET resumed == [q \in {p} |->
                  AfterGetOrCreate([r EXCEPT !.topic = chatMappings[t]])]
            IN /\ Resume(resumed)
               /\ chatMappings' = MappingsAfter(chatMappings, resumed)
               /\ UNCHANGED creatingTopics
     ELSE IF CreationInProgress(t)
       THEN \* E:143-145, O:207-210: `return await this.creatingTopics.get(...)`
            IF creatingTopics[t] = "pending"
              THEN /\ fw' = [fw EXCEPT ![p] = [r EXCEPT !.pc = "joined"]]
                   /\ UNCHANGED <<creatingTopics, chatMappings>>
              ELSE \* the promise left in the table has settled with null: the
                   \* call returns null and the message is dropped
                   /\ Resume([q \in {p} |-> AfterGetOrCreate(r)])
                   /\ UNCHANGED <<creatingTopics, chatMappings>>
     ELSE IF t = NonStringThread
       THEN \* substring throws before the first await: catch returns null, finally
            \* deletes the (absent) entry, and only then E:178, O:275 stores the
            \* promise, which has already settled
            /\ Resume([q \in {p} |-> AfterGetOrCreate(r)])
            /\ creatingTopics' = [creatingTopics EXCEPT ![t] = "null"]
            /\ UNCHANGED chatMappings
     ELSE \* the creation routine runs to its first await, E:158 createForumTopic
          \* (O:229 saveUserMapping, which swallows its failures, then O:237
          \* createForumTopic: nothing of the mapping is read or written between
          \* the two awaits); E:178, O:275 store its promise
          /\ creatingTopics' = [creatingTopics EXCEPT ![t] = "pending"]
          /\ UNCHANGED chatMappings
          /\ fw' = [fw EXCEPT ![p] = [r EXCEPT !.pc = "creating"]]
  /\ Collect(topics, topicVerificationCache)

\* E:158-162, O:237-258  createForumTopic has settled.  On success the
\* destination has created a topic with a fresh id and saveChatMapping awaits
\* updateOne; on failure the catch block returns null (E:170-172, O:267-269).
AfterCreateTopic(p) ==
  /\ fw[p].pc = "creating"
  /\ UNCHANGED <<generation, welcomeMessage, store>>
  /\ UNCHANGED notMapper
  /\ \/ /\ nextTopicId <= MaxTopicId
        /\ nextTopicId' = nextTopicId + 1
        /\ fw' = [fw EXCEPT ![p].pc = "saving", ![p].topic = nextTopicId]
        /\ UNCHANGED <<creatingTopics, chatMappings>>
        /\ Collect(topics \cup {nextTopicId}, topicVerificationCache)
     \/ /\ SettleCreation(p, NoTopic, chatMappings)
        /\ UNCHANGED nextTopicId
        /\ Collect(topics, topicVerificationCache)

\* E:121-135, O:126-139  updateOne has settled.  On success the record is
\* upserted and the map entry set; a failure is logged and swallowed
\* (E:133-135, O:137-139).  Then E:165-169, O:262-266: the welcome message is
\* awaited, or the routine returns the topic id.
\* O:135 deletes the verification verdict under the thread id.
AfterSaveChatMapping(p) ==
  LET t == fw[p].thread
      topicId == fw[p].topic
  IN
  /\ fw[p].pc = "saving"
  /\ UNCHANGED <<generation, welcomeMessage, nextTopicId>>
  /\ UNCHANGED notMapper
  /\ \E ok \in BOOLEAN :
       LET mappings == IF ok THEN [chatMappings EXCEPT ![t] = SavedTopicId(topicId)]
                             ELSE chatMappings
       IN
       /\ store' = IF ok THEN [store EXCEPT ![t] = SavedTopicId(topicId)] ELSE store
       /\ IF welcomeMessage
            THEN /\ fw' = [fw EXCEPT ![p].pc = "welcome", ![p].saved = ok]
                 /\ chatMappings' = mappings
                 /\ UNCHANGED creatingTopics
            ELSE SettleCreation(p, topicId, mappings)
       /\ Collect(topics,
                  IF ok /\ generation = "old"
                    THEN CacheDelete(topicVerificationCache, ThreadKey(t))
                    ELSE topicVerificationCache)

\* E:182-200, O:303-357  sendWelcomeMessage has settled; it swallows every
\* failure of sending and pinning.  The routine returns the topic id.
WelcomeResult_Rethrown(topicId, sent) == IF sent THEN topicId ELSE NoTopic
WelcomeResult(topicId, sent) == topicId

AfterWelcomeMessage(p) ==
  /\ fw[p].pc = "welcome"
  /\ \E sent \in BOOLEAN :
       SettleCreation(p, WelcomeResult(fw[p].topic, sent), chatMappings)
  /\ UNCHANGED <<generation, welcomeMessage, store, nextTopicId>>
  /\ UNCHANGED notMapper
  /\ Collect(topics, topicVerificationCache)

\* O:387-400  getChat has settled: the topic exists (verdict cached), the
\* destination answers that it does not (verdict cached, O:478-483 follows),
\* or another error, after which the topic is taken to exist (not cached).
AfterVerifyTopic(p) ==
  LET t == fw[p].thread
      key == TopicKey(fw[p].topic)
  IN
  /\ fw[p].pc = "verifying"
  /\ UNCHANGED <<generation, welcomeMessage, store, creatingTopics, nextTopicId>>
  /\ UNCHANGED notMapper
  /\ \/ /\ fw[p].topic \in topics
        /\ fw' = [fw EXCEPT ![p].pc = "sending"]
        /\ UNCHANGED chatMappings
        /\ Collect(topics, CacheSet(topicVerificationCache, key, TRUE))
     \/ /\ fw[p].topic \notin topics
        /\ fw' = [fw EXCEPT ![p].pc = "deleting"]
        /\ chatMappings' = DeleteStaleMapping(chatMappings, t)
        /\ Collect(topics, CacheSet(topicVerificationCache, key, FALSE))
     \/ /\ fw' = [fw EXCEPT ![p].pc = "sending"]
        /\ UNCHANGED chatMappings
        /\ Collect(topics, topicVerificationCache)

\* E:228-230, O:489-493  sendMessage has succeeded: the message is in the
\* topic.
SendDelivered(p) ==
  /\ fw[p].pc = "sending"
  /\ fw[p].topic \in topics
  /\ fw' = [fw EXCEPT ![p] = Idle]
  /\ UNCHANGED chatMappings

\* sendMessage has failed because the topic is gone ('message thread not
\* found').  O:495-499: the old bridge drops the mapping and awaits deleteOne.
\* E:231-234: the enhanced bridge logs the error and returns null.
SendTopicMissing(p) ==
  /\ fw[p].pc = "sending"
  /\ fw[p].topic \notin topics
  /\ IF generation = "old"
       THEN /\ chatMappings' = DeleteStaleMapping(chatMappings, fw[p].thread)
            /\ fw' = [fw EXCEPT ![p].pc = "deleting"]
       ELSE /\ fw' = [fw EXCEPT ![p] = Idle]
            /\ UNCHANGED chatMappings

\* E:231-234, O:494-505  sendMessage has failed for another reason, while the
\* topic exists: the error is logged.
SendFailed(p) ==
  /\ fw[p].pc = "sending"
  /\ fw[p].topic \in topics
  /\ fw' = [fw EXCEPT ![p] = Idle]
  /\ UNCHANGED chatMappings

\* E:226-236, O:489-505  sendMessage has settled.
AfterSendMessage(p) ==
  /\ SendDelivered(p) \/ SendTopicMissing(p) \/ SendFailed(p)
  /\ UNCHANGED <<generation, welcomeMessage, store, creatingTopics, nextTopicId>>
  /\ UNCHANGED notMapper
  /\ Collect(topics, topicVerificationCache)

\* O:483 and O:499  deleteOne has removed the chat record.
RecordDeleted(p) ==
  /\ fw[p].pc = "deleting"
  /\ store' = [store EXCEPT ![fw[p].thread] = NoTopic]

\* O:483 and O:499  deleteOne has failed: the error is logged (O:502) or
\* propagates to the catch of sendToTelegram (O:469-471).
RecordDeleteFailed(p) ==
  /\ fw[p].pc = "deleting"
  /\ UNCHANGED store

\* O:483-486 and O:499-504  deleteOne has settled.  The message is not sent.
AfterDeleteOne(p) ==
  /\ RecordDeleted(p) \/ RecordDeleteFailed(p)
  /\ fw' = [fw EXCEPT ![p] = Idle]
  /\ UNCHANGED <<generation, welcomeMessage, chatMappings, creatingTopics,
                 nextTopicId>>
  /\ UNCHANGED notMapper
  /\ Collect(topics, topicVerificationCache)

\* A user of the destination chat deletes a topic.
DeleteTopic(topicId) ==
  /\ topicId \in topics
  /\ topics' = topics \ {topicId}
  /\ UNCHANGED <<generation, welcomeMessage, store, chatMappings, creatingTopics,
                 topicVerificationCache, nextTopicId, fw, welcomed>>
  /\ UNCHANGED notMapper

\* The process is restarted while no forward is running: the constructor
\* (E:11-25, O:12-26), then E:75-102, O:80-109 loadMappingsFromDb: the map holds
\* the store's chat records, or nothing when find() fails (logged, swallowed).
Restart ==
  /\ \A p \in Procs : fw[p].pc = "idle"
  /\ chatMappings' \in {store, NoMappings}
  /\ creatingTopics' = [t \in Threads |-> "absent"]
  /\ UNCHANGED <<generation, welcomeMessage, store, nextTopicId, fw>>
  /\ UNCHANGED notMapper
  /\ Collect(topics, {})

MapperNext ==
  \/ \E p \in Procs, t \in Threads : StartForward(p, t)
  \/ \E p \in Procs : AfterCreateTopic(p)
  \/ \E p \in Procs : AfterSaveChatMapping(p)
  \/ \E p \in Procs : AfterWelcomeMessage(p)
  \/ \E p \in Procs : AfterVerifyTopic(p)
  \/ \E p \in Procs : AfterSendMessage(p)
  \/ \E p \in Procs : AfterDeleteOne(p)
  \/ \E topicId \in TopicIds : DeleteTopic(topicId)
  \/ Restart

(***************************************************************************)
(* REVERSE PIPELINE                                                        *)
(*                                                                         *)
(* The 'message' listener and handleTelegramMessage of both bridges        *)
(* (TelegramBridge.js, "E:"; part_001, "O:"), the enhanced bridge's        *)
(* handleTelegramText, handleTelegramVoice and handleTelegramMedia, the    *)
(* old bridge's handleTelegramMedia, and EnhancedInstagramBot.sendPhoto    *)
(* and sendVoiceMessage (part_000, "B:").  The old bridge sends the        *)
(* downloaded buffer and writes no file (O:643-746).                       *)
(*                                                                         *)
(* A handler is one invocation for one destination event.  The files are   *)
(* named after Date.now(); here a file is named after the handler that     *)
(* wrote it and its role, and the names themselves are the subject of TEMP *)
(* FILE NAMES below.  setReaction (E:422-435, O:749-763) swallows its *)
(* failures and touches nothing else: its awaits are not steps of the      *)
(* model, and the model records the marker it is called with.  The         *)
(* markers: "unknown" is '❓', "filtered" '🚫', "success" '👍', "error"     *)
(* '❌'; the progress marker '🔄' (E:323, E:371, O:645) is not recorded.    *)
(***************************************************************************)
Handlers == {"h1", "h2"}
\* What an event carries: text; a voice note; a photo; a document (a video
\* takes the same path, E:400-404); anything else.
Kinds == {"text", "voice", "photo", "document", "other"}
\* "original": E:331 voice_*.ogg, E:394 the downloaded media file;
\* "converted": E:335 voice_*.m4a; "upload": B:235 ./temp/voice_*.m4a
Roles == {"original", "converted", "upload"}
File(h, role) == [owner |-> h, role |-> role]
FilesOf(h) == {File(h, role) : role \in Roles}

\* The texts of the text events: one a blocked term may match, one that
\* differs from it in letter case, one no term matches.
EventTexts == {<<"a">>, <<"A">>, <<"b">>}

\* The events the destination client can emit: the chat is the bridge's
\* chat (msg.chat.id is telegramChatId) or another chat the bot is a member
\* of; msg.chat.type; is_topic_message with a message_thread_id (only a
\* supergroup has topics; topicId is read for a topic message only); the
\* content.
TelegramEvents ==
  {e \in [chat : {"bridge", "other"}, chatType : {"supergroup", "private"},
          inTopic : BOOLEAN, topicId : TopicIds, kind : Kinds,
          text : EventTexts \cup {NoText}, caption : BOOLEAN] :
     /\ e.inTopic => e.chatType = "supergroup"
     /\ ~e.inTopic => e.topicId = 1
     /\ (e.kind = "text") = (e.text # NoText)
     /\ e.caption => e.kind = "photo"}

\* E:258-262, O:541-545  the test the 'message' listener applies before it
\* calls handleTelegramMessage.
InForumTopic(event) == event.chatType = "supergroup" /\ event.inTopic

\* E:437-444, O:765-772  findInstagramThreadIdByTopic: the threads mapped to
\* the topic; it returns the first, or null when there is none.
findInstagramThreadIdByTopic_Any(mappings, topicId) ==
  {t \in Threads : mappings[t] # NoTopic}
findInstagramThreadIdByTopic(mappings, topicId) ==
  {t \in Threads : mappings[t] = topicId}

\* E:312-317, E:350-351, E:363-365, E:406, E:416-418, O:606-611, O:736-744
\* the marker set once the send to the source has settled.
AckAfterSend_Success(ok) == "success"
AckAfterSend(ok) == IF ok THEN "success" ELSE "error"

\* A handler: pc; the event's kind and caption, while it runs; whether the
\* event was in a topic of the bridge's chat; the topic it was in (NoTopic:
\* in none); whether the filter matched; whether the send to the source has
\* succeeded; the number of sends to the source requested; the markers set.
\* A handler that has returned keeps the record of its event until it takes
\* the next.
NoEvent == [pc |-> "idle", started |-> FALSE, kind |-> "voice", caption |-> FALSE,
            scoped |-> FALSE, topic |-> NoTopic, blocked |-> FALSE,
            sent |-> FALSE, sends |-> 0, acks |-> <<>>]

\* E:17 `this.tempDir`, an empty directory on a fresh deployment.
ReverseInit ==
  /\ tempFiles = {}
  /\ tg = [h \in Handlers |-> NoEvent]

\* A file operation that fails may have created the file before it failed.
MaybeWritten(file) == {tempFiles, tempFiles \cup {file}}

\* What every action of the reverse pipeline leaves alone.
ReverseFrame == UNCHANGED generation /\ UNCHANGED notReverse

\* The handler returns.
Return(rec) == [rec EXCEPT !.pc = "idle", !.kind = "voice", !.caption = FALSE]

\* The handler sets a marker and returns.
Acknowledge(rec, marker) == Return([rec EXCEPT !.acks = Append(@, marker)])

\* A send to the source is requested.
Request(rec, pc) == [rec EXCEPT !.pc = pc, !.sends = @ + 1]

\* The 'message' listener runs for an event (E:256-268, O:539-553) and, for
\* an event in a topic of a group, handleTelegramMessage up to its first
\* await of a collaborator other than setReaction:
\*   E:279-286, O:578-585  an unmapped topic is marked and left;
\*   O:592-601  the old bridge applies the filter;
\*   E:288-301, O:604-632  dispatch on the content: the text is sent
\*   (E:309-312, O:605), the file of a voice note, photo or document is
\*   requested (E:323-328, E:371-393, O:645-676); for anything else the
\*   enhanced bridge sets the error marker and the old bridge sends a
\*   fallback text (O:624-626).
StartEvent(h, event) ==
  LET found == findInstagramThreadIdByTopic(chatMappings, event.topicId)
      originalText == trim(event.text)
      rec == [NoEvent EXCEPT !.started = TRUE, !.kind = event.kind,
                             !.scoped = event.chat = "bridge" /\ event.inTopic,
                             !.topic = IF event.inTopic THEN event.topicId
                                                        ELSE NoTopic]
  IN
  /\ listening
  /\ tg[h].pc = "idle"
  /\ tg' = [tg EXCEPT ![h] =
       IF ~InForumTopic(event) THEN Return(rec)
       ELSE IF found = {} THEN Acknowledge(rec, "unknown")
       ELSE IF generation = "old" /\ Blocked(filters, toLowerCase(originalText))
         THEN Acknowledge([rec EXCEPT !.blocked = TRUE], "filtered")
       ELSE IF event.kind = "text" THEN Request(rec, "sendingText")
       ELSE IF event.kind = "other"
         THEN IF generation = "old" THEN Request(rec, "sendingText")
                                    ELSE Acknowledge(rec, "error")
       ELSE [rec EXCEPT !.pc = "download", !.caption = event.caption]]
  /\ UNCHANGED tempFiles
  /\ ReverseFrame

\* E:312-318, O:605-611, O:626-631, O:637-640  instagramBot.sendMessage has
\* settled: the success marker, or the error marker.
AfterSendText(h) ==
  /\ tg[h].pc = "sendingText"
  /\ \E ok \in BOOLEAN :
       tg' = [tg EXCEPT ![h] = Acknowledge([@ EXCEPT !.sent = ok], AckAfterSend(ok))]
  /\ UNCHANGED tempFiles
  /\ ReverseFrame

\* E:327-332, E:392-395, O:675-677  the download has settled: the enhanced
\* bridge awaits writeFile, the old bridge sends the buffer (O:681-716); or
\* the catch block (E:363-366, E:416-419, O:742-745) reports the failure.
AfterDownload(h) ==
  /\ tg[h].pc = "download"
  /\ \/ tg' = [tg EXCEPT ![h] = IF generation = "enhanced"
                                  THEN [@ EXCEPT !.pc = "writing"]
                                  ELSE Request(@, "sendingMedia")]
     \/ tg' = [tg EXCEPT ![h] = Acknowledge(@, AckAfterSend(FALSE))]
  /\ UNCHANGED tempFiles
  /\ ReverseFrame

\* E:332, E:395  writeFile has settled.  The voice handler starts ffmpeg
\* (E:337-347); the media handler sends (E:397-403).
AfterWriteFile(h) ==
  /\ tg[h].pc = "writing"
  /\ \/ /\ tempFiles' = tempFiles \cup {File(h, "original")}
        /\ tg' = [tg EXCEPT ![h] = IF tg[h].kind = "voice"
                                     THEN [@ EXCEPT !.pc = "transcoding"]
                                     ELSE Request(@, "sendingMedia")]
     \/ /\ tempFiles' \in MaybeWritten(File(h, "original"))
        /\ tg' = [tg EXCEPT ![h] = Acknowledge(@, AckAfterSend(FALSE))]
  /\ ReverseFrame

\* E:337-350  ffmpeg has ended: 'end', after which sendVoiceMessage reads
\* the converted file and awaits writeFile of its own copy (B:232-236); or
\* 'error', which rejects and takes the handler to its catch block.
AfterTranscode(h) ==
  /\ tg[h].pc = "transcoding"
  /\ \/ /\ tempFiles' = tempFiles \cup {File(h, "converted")}
        /\ tg' = [tg EXCEPT ![h].pc = "voiceCopy"]
     \/ /\ tempFiles' \in MaybeWritten(File(h, "converted"))
        /\ tg' = [tg EXCEPT ![h] = Acknowledge(@, AckAfterSend(FALSE))]
  /\ ReverseFrame

\* B:232-241  readFile and writeFile of the copy have settled: the copy is
\* sent; or one of them failed, B:253-256 rethrows and the handler's catch
\* block runs.
AfterVoiceCopy(h) ==
  /\ tg[h].pc = "voiceCopy"
  /\ \/ /\ tempFiles' = tempFiles \cup {File(h, "upload")}
        /\ tg' = [tg EXCEPT ![h] = Request(@, "voiceSend")]
     \/ /\ tempFiles' \in MaybeWritten(File(h, "upload"))
        /\ tg' = [tg EXCEPT ![h] = Acknowledge(@, AckAfterSend(FALSE))]
  /\ ReverseFrame

\* B:241-248  thread.sendPhoto has settled; the finally block awaits unlink
\* of the copy.
AfterVoiceSend(h) ==
  /\ tg[h].pc = "voiceSend"
  /\ \E ok \in BOOLEAN : tg' = [tg EXCEPT ![h].pc = "voiceUnlink", ![h].sent = ok]
  /\ UNCHANGED tempFiles
  /\ ReverseFrame

\* B:247-251  unlink of the copy has settled (a failure is logged).  After a
\* successful send E:351-357 follows: the success marker, and
\* unlink(originalPath) is awaited; after a failed send the error reaches
\* the handler's catch block.
AfterVoiceUnlink(h) ==
  /\ tg[h].pc = "voiceUnlink"
  /\ \/ tempFiles' = tempFiles \ {File(h, "upload")}
     \/ UNCHANGED tempFiles
  /\ tg' = [tg EXCEPT ![h] =
              IF tg[h].sent
                THEN [@ EXCEPT !.pc = "unlinkOriginal",
                               !.acks = Append(@, AckAfterSend(TRUE))]
                ELSE Acknowledge(@, AckAfterSend(FALSE))]
  /\ ReverseFrame

\* The media has been sent and, if there is one, the caption: E:406-411 the
\* success marker, and the enhanced bridge awaits unlink(filePath);
\* O:736-738 the old bridge returns.
MediaSent(rec) ==
  IF generation = "enhanced"
    THEN [rec EXCEPT !.pc = "unlinkOriginal", !.sent = TRUE,
                     !.acks = Append(@, AckAfterSend(TRUE))]
    ELSE Acknowledge([rec EXCEPT !.sent = TRUE], AckAfterSend(TRUE))

\* E:398-404, B:209-215, O:684-716  the send of the media has settled
\* (thread.sendPhoto; broadcastPhoto, broadcastVoice; for a document
\* sendMessage with a description).  A photo with a caption is followed by
\* sendMessage(caption) (B:213-215, O:688-691).  A failure, or a falsy
\* result in the old bridge (O:739-741), takes the handler to its catch
\* block.
AfterSendMedia(h) ==
  /\ tg[h].pc = "sendingMedia"
  /\ \/ tg' = [tg EXCEPT ![h] = IF tg[h].caption THEN Request(@, "sendingCaption")
                                                 ELSE MediaSent(@)]
     \/ tg' = [tg EXCEPT ![h] = Acknowledge(@, AckAfterSend(FALSE))]
  /\ UNCHANGED tempFiles
  /\ ReverseFrame

\* B:214, O:690  sendMessage(caption) has settled.
AfterSendCaption(h) ==
  /\ tg[h].pc = "sendingCaption"
  /\ \/ tg' = [tg EXCEPT ![h] = MediaSent(@)]
     \/ tg' = [tg EXCEPT ![h] = Acknowledge(@, AckAfterSend(FALSE))]
  /\ UNCHANGED tempFiles
  /\ ReverseFrame

\* E:357-358, E:411  unlink of the original has settled.  The voice handler
\* awaits unlink(convertedPath) next; a failure skips it (E:359-361).
AfterUnlinkOriginal(h) ==
  /\ tg[h].pc = "unlinkOriginal"
  /\ \/ /\ tempFiles' = tempFiles \ {File(h, "original")}
        /\ tg' = [tg EXCEPT ![h] = IF tg[h].kind = "voice"
                                     THEN [@ EXCEPT !.pc = "unlinkConverted"]
                                     ELSE Return(@)]
     \/ /\ UNCHANGED tempFiles
        /\ tg' = [tg EXCEPT ![h] = Return(@)]
  /\ ReverseFrame

\* E:358-361  unlink of the converted file has settled.
AfterUnlinkConverted(h) ==
  /\ tg[h].pc = "unlinkConverted"
  /\ \/ tempFiles' = tempFiles \ {File(h, "converted")}
     \/ UNCHANGED tempFiles
  /\ tg' = [tg EXCEPT ![h] = Return(@)]
  /\ ReverseFrame

ReverseNext ==
  \/ \E h \in Handlers, event \in TelegramEvents : StartEvent(h, event)
  \/ \E h \in Handlers : AfterSendText(h)
  \/ \E h \in Handlers : AfterDownload(h)
  \/ \E h \in Handlers : AfterWriteFile(h)
  \/ \E h \in Handlers : AfterTranscode(h)
  \/ \E h \in Handlers : AfterVoiceCopy(h)
  \/ \E h \in Handlers : AfterVoiceSend(h)
  \/ \E h \in Handlers : AfterVoiceUnlink(h)
  \/ \E h \in Handlers : AfterSendMedia(h)
  \/ \E h \in Handlers : AfterSendCaption(h)
  \/ \E h \in Handlers : AfterUnlinkOriginal(h)
  \/ \E h \in Handlers : AfterUnlinkConverted(h)

(***************************************************************************)
(* POLLING AND RE-AUTHENTICATION                                           *)
(*                                                                         *)
(* EnhancedInstagramBot (part_000): login, the timer callback of           *)
(* startMessagePolling, handleAuthenticationError and disconnect.          *)
(* setInterval starts a callback every five seconds whether or not the     *)
(* previous one has returned: the runs of the callback overlap.            *)
(***************************************************************************)
\* The runs of the timer callback that can be under way at once.
Ticks == {"k1", "k2"}

\* What a failed poll's error.message contains.
Errors == [login : BOOLEAN, authentication : BOOLEAN]

\* part_000:93  error.message.includes('login') || ...includes('authentication')
IsAuthError(error) == error.login \/ error.authentication

\* part_000:291-294  the catch block of handleAuthenticationError logs the
\* failure and rethrows it; nothing awaits the timer callback, the rejection
\* is unhandled.
FailureOutcome_Silent(previous) == previous
FailureOutcome(previous) == "failed"

\* part_000:8-17  the constructor; the session file of an earlier run may
\* exist.
PollInit ==
  /\ isRunning = FALSE
  /\ pollingInterval = FALSE
  /\ polls = [k \in Ticks |-> "idle"]
  /\ sessionFile \in BOOLEAN
  /\ authOutcome = "none"
  /\ crashed = FALSE

PollFrame == UNCHANGED generation /\ UNCHANGED notPoll

\* part_000:24-72  login succeeds, from the saved session or with the
\* credentials (the session is then saved), and starts the polling timer.
\* A login that fails throws (part_000:73-76) and changes nothing.
Login ==
  /\ generation = "enhanced"
  /\ ~crashed
  /\ ~pollingInterval
  /\ isRunning' = TRUE
  /\ pollingInterval' = TRUE
  /\ sessionFile' = TRUE
  /\ UNCHANGED <<polls, authOutcome, crashed>>
  /\ PollFrame

\* part_000:84-88  the timer fires: the callback returns at once when the
\* bot is not running, and awaits checkForNewMessages otherwise.
Tick(k) ==
  /\ ~crashed
  /\ pollingInterval
  /\ polls[k] = "idle"
  /\ isRunning
  /\ polls' = [polls EXCEPT ![k] = "checking"]
  /\ UNCHANGED <<isRunning, pollingInterval, sessionFile, authOutcome, crashed>>
  /\ PollFrame

\* part_000:88, 102-113  listThreads has returned and no message of the
\* threads is new: checkForNewMessages returns and the callback ends.
CheckSucceeded(k) ==
  /\ polls[k] = "checking"
  /\ polls' = [polls EXCEPT ![k] = "idle"]
  /\ UNCHANGED isRunning

\* part_000:102-109  listThreads has returned with a message that
\* isNewMessage accepts: handleMessage is called with it and awaited (it
\* invokes the registered handlers).
CheckDispatches(k) ==
  /\ polls[k] = "checking"
  /\ polls' = [polls EXCEPT ![k] = "dispatching"]
  /\ UNCHANGED isRunning

\* part_000:89-96  checkForNewMessages has thrown.  The error is logged; for
\* an authentication error handleAuthenticationError runs to its first
\* await: part_000:261 isRunning = false, part_000:265 unlink of the session.
CheckFailed(k, error) ==
  /\ polls[k] = "checking"
  /\ IF IsAuthError(error)
       THEN /\ isRunning' = FALSE
            /\ polls' = [polls EXCEPT ![k] = "unlinking"]
       ELSE /\ polls' = [polls EXCEPT ![k] = "idle"]
            /\ UNCHANGED isRunning

AfterCheck(k) ==
  /\ ~crashed
  /\ \/ CheckSucceeded(k)
     \/ CheckDispatches(k)
     \/ \E error \in Errors : CheckFailed(k, error)
  /\ UNCHANGED <<pollingInterval, sessionFile, authOutcome, crashed>>
  /\ PollFrame

\* part_000:104-113, 139-167  handleMessage has returned (it does not throw)
\* for the last new message of the threads: the callback ends.  After an
\* earlier new message the loop calls handleMessage again.
AfterHandleMessage(k) ==
  /\ ~crashed
  /\ polls[k] = "dispatching"
  /\ polls' = [polls EXCEPT ![k] = "idle"]
  /\ UNCHANGED <<isRunning, pollingInterval, sessionFile, authOutcome, crashed>>
  /\ PollFrame

\* part_000:291-294, and the unhandled rejection of the timer callback: the
\* runtime ends the process or only reports the rejection, depending on its
\* version and flags.
ReauthFailed(k) ==
  /\ polls' = [polls EXCEPT ![k] = "idle"]
  /\ authOutcome' = FailureOutcome(authOutcome)
  /\ crashed' \in BOOLEAN
  /\ UNCHANGED isRunning

\* part_000:265-290  unlink of the session has settled (a failure is
\* ignored).  With credentials in the configuration a new client is
\* constructed and writeFile of the session is awaited; the constructor may
\* throw; without credentials part_000:289 throws.
AfterUnlinkSession(k) ==
  /\ ~crashed
  /\ polls[k] = "unlinking"
  /\ sessionFile' \in {FALSE, sessionFile}
  /\ \E credentials \in BOOLEAN, constructed \in BOOLEAN :
       IF credentials /\ constructed
         THEN /\ polls' = [polls EXCEPT ![k] = "writing"]
              /\ UNCHANGED <<isRunning, authOutcome, crashed>>
         ELSE ReauthFailed(k)
  /\ UNCHANGED pollingInterval
  /\ PollFrame

\* part_000:284-287  writeFile of the session has settled: isRunning = true;
\* or it failed and the catch block runs.
AfterWriteSession(k) ==
  /\ ~crashed
  /\ polls[k] = "writing"
  /\ \/ /\ sessionFile' = TRUE
        /\ isRunning' = TRUE
        /\ authOutcome' = "ok"
        /\ polls' = [polls EXCEPT ![k] = "idle"]
        /\ UNCHANGED crashed
     \/ /\ ReauthFailed(k)
        /\ UNCHANGED sessionFile
  /\ UNCHANGED pollingInterval
  /\ PollFrame

\* part_000:297-307  disconnect
Disconnect ==
  /\ ~crashed
  /\ pollingInterval
  /\ isRunning' = FALSE
  /\ pollingInterval' = FALSE
  /\ UNCHANGED <<polls, sessionFile, authOutcome, crashed>>
  /\ PollFrame

PollNext ==
  \/ Login
  \/ \E k \in Ticks : Tick(k)
  \/ \E k \in Ticks : AfterCheck(k)
  \/ \E k \in Ticks : AfterHandleMessage(k)
  \/ \E k \in Ticks : AfterUnlinkSession(k)
  \/ \E k \in Ticks : AfterWriteSession(k)
  \/ Disconnect

(***************************************************************************)
(* TEXT RELAY AND CONTENT FILTER                                           *)
(*                                                                         *)
(* What sendToTelegram hands to the destination send for a source message  *)
(* (E:212-219, O:434-467), and what handleTelegramMessage hands to the     *)
(* source send for a text event of a mapped topic (E:288-289, E:309-313,   *)
(* O:592-611), as functions of the text and of the blocked terms.  The     *)
(* bridge is enabled and the topic resolved; the outcome of the send is    *)
(* not part of this component.                                             *)
(***************************************************************************)
\* The types of a source message: 'text'; 'media', 'photo', 'video' ('clip');
\* any other.
MessageTypes == {"text", "media", "other"}
SourceMessages == [text : Texts, type : MessageTypes]

\* What is handed to a send: the text as it is, or a line made of it.
Plain(text) == [form |-> "plain", text |-> text]
Fallback(text) == [form |-> "fallback", text |-> text]
MediaNotice == [form |-> "media", text |-> <<>>]

\* E:212-219  EnhancedTelegramBridge.sendToTelegram once the topic is known:
\* the payloads handed to sendSimpleMessage.  There is no filter check.
EnhancedForward(message) ==
  IF message.type = "text" THEN <<Plain(message.text)>>
  ELSE IF message.type = "media" THEN <<MediaNotice>>
  ELSE <<Fallback(message.text)>>

\* O:434-467  TelegramBridge.sendToTelegram once the topic is known: the
\* filter check on `(message.text || '').toLowerCase().trim()`, then the
\* dispatch by type; O:509-531 handleInstagramMedia sends nothing.
OldForward(words, message) ==
  IF Blocked(words, trim(toLowerCase(message.text))) THEN <<>>
  ELSE IF message.type = "text" THEN <<Plain(message.text)>>
  ELSE IF message.type = "media" THEN <<>>
  ELSE <<Fallback(message.text)>>

\* E:288-289, E:309-313  a text event of a mapped topic:
\* `const text = msg.text.trim()` is handed to instagramBot.sendMessage.
\* An event without text takes the media branches (E:290-301).
EnhancedReverse(text) ==
  IF text = NoText THEN [marker |-> "none", sent |-> <<>>]
  ELSE [marker |-> "none", sent |-> <<Plain(trim(text))>>]

\* O:592-611  `originalText = msg.text?.trim() || ''`, the filter check on
\* `originalText.toLowerCase()` (reaction '🚫' and return), then for a text
\* event instagramBot.sendMessage(instagramThreadId, originalText).
OldReverse(words, text) ==
  LET originalText == trim(text) IN
  IF Blocked(words, toLowerCase(originalText))
    THEN [marker |-> "filtered", sent |-> <<>>]
  ELSE IF text = NoText THEN [marker |-> "none", sent |-> <<>>]
  ELSE [marker |-> "none", sent |-> <<Plain(originalText)>>]

\* The media kinds of a destination event (E:290-297, O:612-621).
MediaKinds == {"photo", "video", "voice", "document"}

\* A call of a send operation of the source bot with a file, or with a text
\* that describes the file.
SourceCall(operation) == [form |-> operation, text |-> <<>>]

\* E:290-297, E:337-350, E:398-404  the enhanced bridge: a photo goes to
\* instagramBot.sendPhoto, a voice note through ffmpeg to sendVoiceMessage,
\* a video or a document to sendMessage with a line that names the file.
EnhancedReverseMedia(kind) ==
  IF kind = "photo" THEN <<SourceCall("photo")>>
  ELSE IF kind = "voice" THEN <<SourceCall("voice")>>
  ELSE <<SourceCall("description")>>

\* O:681-716  the old bridge: a photo goes to broadcastPhoto, a video to
\* broadcastVideo, a voice note to broadcastVoice with the buffer as it was
\* downloaded, a document to sendMessage with a line that names the file.
OldReverseMedia(kind) ==
  IF kind = "photo" THEN <<SourceCall("photo")>>
  ELSE IF kind = "video" THEN <<SourceCall("video")>>
  ELSE IF kind = "voice" THEN <<SourceCall("unconverted voice")>>
  ELSE <<SourceCall("description")>>

NoRelay == [op |-> "none", text |-> <<>>, type |-> "text", sent |-> <<>>,
            marker |-> "none"]

\* The participants whose messages arrive (message.senderId).
Senders == {"u1", "u2", "u3"}

\* No entry in userMappings (O:16), no user record in the store.
NoProfile == -1
NoProfiles == [s \in Senders |-> NoProfile]

\* The largest messageCount the model follows.
MaxMessageCount == 2

\* O:142-167  saveUserMapping(instagramUserId, userData): the upsert of the
\* user record, then `this.userMappings.set`; a failing upsert is logged
\* and the map is left as it was.
saveUserMapping(profiles, s, count, saved) ==
  IF saved THEN [profiles EXCEPT ![s] = count] ELSE profiles

\* O:412-426  the user mapping of sendToTelegram: a sender without entry is
\* saved with messageCount 0; the entry of a known sender is incremented in
\* place (O:422-424) before it is saved.
\* E:202-224  the enhanced sendToTelegram does not touch userMappings, and
\* the enhanced bridge has no saveUserMapping.
EnsureUserMapping(s, saved) ==
  IF generation = "enhanced" THEN UNCHANGED <<userMappings, userRecords>>
  ELSE IF userMappings[s] = NoProfile
    THEN /\ userMappings' = saveUserMapping(userMappings, s, 0, saved)
         /\ userRecords' = saveUserMapping(userRecords, s, 0, saved)
    ELSE /\ userMappings' = [userMappings EXCEPT ![s] = @ + 1]
         /\ userRecords' = saveUserMapping(userRecords, s, userMappings[s] + 1,
                                           saved)

\* The bridge has been initialized: E:24 `this.filters = new Set()`, which
\* the enhanced bridge never writes; the old bridge has loaded the `word` of
\* every filter record (O:184-196).
RelayInit ==
  /\ generation \in {"enhanced", "old"}
  /\ filters \in IF generation = "old" THEN FilterSets ELSE {{}}
  /\ relay = NoRelay
  /\ userMappings = NoProfiles
  /\ userRecords = NoProfiles
  /\ forwards = [s \in Senders |-> 0]

RelayFrame == UNCHANGED generation /\ UNCHANGED notRelay

\* sendToTelegram for one source message, from its start to the end of
\* the user mapping (O:406-426) or to the call of getOrCreateTopic
\* (E:203-207).
UserMapping(sender, saved) ==
  /\ BridgeAccepts
  /\ forwards[sender] < MaxMessageCount
  /\ forwards' = [forwards EXCEPT ![sender] = @ + 1]
  /\ EnsureUserMapping(sender, saved)
  /\ UNCHANGED <<filters, relay>>
  /\ RelayFrame

ProfileNext ==
  \E sender \in Senders, saved \in BOOLEAN : UserMapping(sender, saved)

\* sendToTelegram for one source message, from the filter check on.
ForwardText(message) ==
  /\ BridgeAccepts
  /\ relay' = [op |-> "forward", text |-> message.text, type |-> message.type,
               sent |-> IF generation = "enhanced"
                          THEN EnhancedForward(message)
                          ELSE OldForward(filters, message),
               marker |-> "none"]
  /\ UNCHANGED <<filters, userMappings, userRecords, forwards>>
  /\ RelayFrame

\* handleTelegramMessage for one event of a mapped topic, up to the send.
ReverseText(text) ==
  LET r == IF generation = "enhanced" THEN EnhancedReverse(text)
                                      ELSE OldReverse(filters, text)
  IN
  /\ listening
  /\ relay' = [op |-> "reverse", text |-> text, type |-> "text",
               sent |-> r.sent, marker |-> r.marker]
  /\ UNCHANGED <<filters, userMappings, userRecords, forwards>>
  /\ RelayFrame

\* handleTelegramMessage for one media event of a mapped topic that the
\* filter lets pass, up to the send of the file.
ReverseMedia(kind) ==
  /\ listening
  /\ relay' = [op |-> "media", text |-> NoText, type |-> kind,
               sent |-> IF generation = "enhanced" THEN EnhancedReverseMedia(kind)
                                                   ELSE OldReverseMedia(kind),
               marker |-> "none"]
  /\ UNCHANGED <<filters, userMappings, userRecords, forwards>>
  /\ RelayFrame

RelayNext ==
  \/ \E message \in SourceMessages : ForwardText(message)
  \/ \E text \in Texts : ReverseText(text)
  \/ \E kind \in MediaKinds : ReverseMedia(kind)

(***************************************************************************)
(* HANDLER DISPATCH                                                        *)
(*                                                                         *)
(* EnhancedInstagramBot.handleMessage (part_000:139-167, "B:") and         *)
(* InstagramBot.handleMessage (bot.js:397-448), called by the listener     *)
(* for a message the dedup window has accepted.  The handlers are the      *)
(* functions onMessage has registered, numbered in registration order.     *)
(***************************************************************************)
\* The most handlers registered.
MaxHandlers == 2
\* The handleMessage invocations that can be under way at once (overlapping
\* timer callbacks, realtime events).
Dispatchers == {"d1", "d2"}

\* An accepted message as handleMessage looks at it: bot.js:400 tests
\* `message.user_id` and `message.item_id`.
InboundMessages == [userId : BOOLEAN, itemId : BOOLEAN]

\* bot.js:400-403  the old bot drops a message without a sender or an id;
\* the enhanced bot has no such test.
Malformed(message) ==
  generation = "old" /\ (~message.userId \/ ~message.itemId)

\* The handler indices i..j in order.
Indices(i, j) == [n \in 1..(j - i + 1) |-> i + n - 1]

\* B:157-161, bot.js:432-439  `try { await handler(processedMessage) }
\* catch (handlerError) { log }`: the loop goes on after a handler that has
\* returned and after one that has thrown or rejected.
LoopContinues_Uncaught(outcome) == outcome = "returned"
LoopContinues(outcome) == outcome \in {"returned", "failed"}

\* No invocation yet.
NoDispatch == [pc |-> "idle", started |-> FALSE, dropped |-> FALSE, atStart |-> 0,
               next |-> 0, invoked |-> <<>>, failed |-> {}]

\* part_000:12, bot.js:19  `this.messageHandlers = []`
DispatchInit ==
  /\ generation \in {"enhanced", "old"}
  /\ messageHandlers = 0
  /\ hm = [d \in Dispatchers |-> NoDispatch]

DispatchFrame == UNCHANGED generation /\ UNCHANGED notDispatch

\* part_000:184-189, bot.js:450-457  onMessage(handler) with a function
OnMessage ==
  /\ messageHandlers < MaxHandlers
  /\ messageHandlers' = messageHandlers + 1
  /\ UNCHANGED hm
  /\ DispatchFrame

\* The loop from handler i on: the handlers i..k-1 throw before they return
\* a promise, handler k is awaited; k beyond the last handler ends the loop
\* (the array is read at every iteration).
Advance(rec, i, k) ==
  IF k > i /\ ~LoopContinues("failed")
    THEN [rec EXCEPT !.pc = "idle", !.next = 0,
                     !.invoked = @ \o <<i>>, !.failed = @ \cup {i}]
  ELSE IF k > messageHandlers
    THEN [rec EXCEPT !.pc = "idle", !.next = 0,
                     !.invoked = @ \o Indices(i, k - 1), !.failed = @ \cup (i..(k - 1))]
  ELSE [rec EXCEPT !.pc = "handler", !.next = k,
                   !.invoked = @ \o Indices(i, k), !.failed = @ \cup (i..(k - 1))]

\* B:139-158, bot.js:397-433  handleMessage up to its first await.
HandleMessage(d, message) ==
  LET rec == [NoDispatch EXCEPT !.started = TRUE, !.atStart = messageHandlers] IN
  /\ hm[d].pc = "idle"
  /\ IF Malformed(message)
       THEN hm' = [hm EXCEPT ![d] = [rec EXCEPT !.dropped = TRUE]]
       ELSE \E k \in 1..(messageHandlers + 1) :
              hm' = [hm EXCEPT ![d] = Advance(rec, 1, k)]
  /\ UNCHANGED messageHandlers
  /\ DispatchFrame

\* B:158-162, bot.js:433-440  the awaited handler has settled.
AfterHandler(d) ==
  LET i == hm[d].next IN
  /\ hm[d].pc = "handler"
  /\ \E outcome \in {"returned", "failed"} :
       LET rec == IF outcome = "failed" THEN [hm[d] EXCEPT !.failed = @ \cup {i}]
                                        ELSE hm[d]
       IN
       IF LoopContinues(outcome)
         THEN \E k \in (i + 1)..(messageHandlers + 1) :
                hm' = [hm EXCEPT ![d] = Advance(rec, i + 1, k)]
         ELSE hm' = [hm EXCEPT ![d] = [rec EXCEPT !.pc = "idle", !.next = 0]]
  /\ UNCHANGED messageHandlers
  /\ DispatchFrame

DispatchNext ==
  \/ OnMessage
  \/ \E d \in Dispatchers, message \in InboundMessages : HandleMessage(d, message)
  \/ \E d \in Dispatchers : AfterHandler(d)

(***************************************************************************)
(* SHUTDOWN                                                                *)
(*                                                                         *)
(* The shutdownHandler that main registers for SIGINT and SIGTERM          *)
(* (E:647-660): EnhancedInstagramBot.disconnect (part_000:297-307), then   *)
(* EnhancedTelegramBridge.shutdown (E:446-461; TelegramBridge.shutdown,    *)
(* O:799-816, is the same code), then process.exit.                        *)
(***************************************************************************)
\* E:655-656  what follows `await telegramBridge.shutdown()` in the
\* shutdownHandler: the log line and process.exit(0), in the job that the
\* settled promise of shutdown() starts.
AfterShutdown_Returns == "returned"
AfterShutdown == "exited"

\* The process runs: callbacks and continuations are still executed.
Alive == stop # "exited"

\* shutdown() has returned to the shutdownHandler.
Stopped == stop \in {"returned", "exited"}

ShutdownFrame == UNCHANGED generation /\ UNCHANGED notShutdown

\* E:648-654, part_000:297-307, E:446-449  a signal arrives: disconnect
\* clears isRunning and the polling timer and returns; shutdown awaits
\* telegramBot.stopPolling() when the client exists, and emptyDir otherwise.
ShutdownHandler ==
  /\ stop = "running"
  /\ ~crashed
  /\ isRunning' = FALSE
  /\ pollingInterval' = FALSE
  /\ stop' = IF telegramBot THEN "stoppingPolling" ELSE "emptying"
  /\ UNCHANGED <<polls, sessionFile, authOutcome, crashed, heartbeat>>
  /\ ShutdownFrame

\* E:449-454  stopPolling has settled: the client no longer receives events,
\* or the failure is logged at debug level and the client stays as it was;
\* emptyDir(tempDir) is awaited.
AfterStopPolling ==
  /\ stop = "stoppingPolling"
  /\ listening' \in {FALSE, listening}
  /\ stop' = "emptying"
  /\ UNCHANGED <<telegramConfig, init, db, collection, telegramBot, enabled,
                 initFailure, lastForward>>
  /\ UNCHANGED <<generation, heartbeat, dedupState, mapperState, reverseState,
                 pollState, relayState, dispatchState, namingState,
                 commandState, timerState>>

\* E:455-460, E:655-656  emptyDir has settled: the directory is empty, or the
\* failure is logged at debug level and the files stay; shutdown returns and
\* the shutdownHandler ends the process, its timers with it.
AfterEmptyDir ==
  /\ stop = "emptying"
  /\ tempFiles' \in {{}, tempFiles}
  /\ stop' = AfterShutdown
  /\ heartbeat' = (heartbeat /\ AfterShutdown # "exited")
  /\ UNCHANGED tg
  /\ UNCHANGED <<generation, dedupState, mapperState, pollState, relayState,
                 lifecycleState, dispatchState, namingState, commandState,
                 timerState>>

\* A voice note posted in the topic of the mapped thread.
VoiceNote ==
  [chat |-> "bridge", chatType |-> "supergroup", inTopic |-> TRUE, topicId |-> 1,
   kind |-> "voice", text |-> NoText, caption |-> FALSE]

\* What the running program does while the handler is under way: the timer
\* callbacks of the poller, the forward pipeline and the reverse pipeline.
ShutdownNext ==
  \/ ShutdownHandler
  \/ AfterStopPolling
  \/ AfterEmptyDir
  \/ Alive /\ \E k \in Ticks : Tick(k)
  \/ Alive /\ \E k \in Ticks : AfterCheck(k)
  \/ Alive /\ \E k \in Ticks : AfterHandleMessage(k)
  \/ Alive /\ \E t \in Threads : StartForward("p1", t)
  \/ Alive /\ AfterCreateTopic("p1")
  \/ Alive /\ AfterSaveChatMapping("p1")
  \/ Alive /\ AfterWelcomeMessage("p1")
  \/ Alive /\ AfterSendMessage("p1")
  \/ Alive /\ StartEvent("h1", VoiceNote)
  \/ Alive /\ AfterDownload("h1")
  \/ Alive /\ AfterWriteFile("h1")

(***************************************************************************)
(* TEMP FILE NAMES                                                         *)
(*                                                                         *)
(* The paths of the temp files of the enhanced bridge's handleTelegramVoice *)
(* (E:320-366) and handleTelegramMedia (E:368-419) and of                   *)
(* EnhancedInstagramBot.sendVoiceMessage (part_000:225-257), as the code    *)
(* computes them: from the kind of the media and Date.now(), or from the    *)
(* file name the document carries.  tempDir is <cwd>/temp (E:20) and        *)
(* sendVoiceMessage writes to ./temp: the same directory.  A file holds the *)
(* bytes of the event of one handler.  A step is the code between two       *)
(* awaits; the reactions and the failures of the network after the download *)
(* are left out.                                                            *)
(***************************************************************************)
\* Date.now() takes the values 0..MaxClock.
MaxClock == 1
NoFile == "none"
\* E:331, 335, 377, 381, 385, part_000:235  `${kind}_${Date.now()}${ext}`
TempName(kind, now, ext) == <<kind, now, ext>>
\* What a handler holds: its place, the kind of its event, the paths it has
\* computed (<<>>: not yet) and the bytes it has read.
NoTemp == [pc |-> "idle", kind |-> "none", path |-> <<>>, converted |-> <<>>,
           upload |-> <<>>, buffer |-> NoFile]

NamingFrame == UNCHANGED generation /\ UNCHANGED notNaming

\* Time passes.
DateNow ==
  /\ clock < MaxClock
  /\ clock' = clock + 1
  /\ UNCHANGED <<disk, tmp>>
  /\ NamingFrame

\* E:368-419  handleTelegramMedia of a photo, a video or a document.
handleTelegramMedia(h) ==
  /\ \/ \* E:373-392  the file name is taken before the download
        /\ tmp[h].pc = "idle"
        /\ \E kind \in {"photo", "video", "document"}, named \in BOOLEAN :
             /\ named => kind = "document"
             /\ tmp' = [tmp EXCEPT ![h] =
                  [NoTemp EXCEPT
                     !.pc = "mediaDownload", !.kind = kind,
                     !.path = IF named THEN <<"report", 0, "pdf">>
                              ELSE TempName(kind, clock,
                                     CASE kind = "photo" -> "jpg"
                                       [] kind = "video" -> "mp4"
                                       [] OTHER -> "")]]
        /\ UNCHANGED disk
     \/ \* E:392-395  the download ends, and writeFile begins or the catch
        \* block ends the handler
        /\ tmp[h].pc = "mediaDownload"
        /\ \E ok \in BOOLEAN :
             tmp' = [tmp EXCEPT ![h] = IF ok THEN [@ EXCEPT !.pc = "mediaWrite"]
                                       ELSE NoTemp]
        /\ UNCHANGED disk
     \/ \* E:395-404  the file is written and the send begins
        /\ tmp[h].pc = "mediaWrite"
        /\ disk' = [disk EXCEPT ![tmp[h].path] = h]
        /\ tmp' = [tmp EXCEPT ![h].pc = "mediaSend"]
     \/ \* E:398-406  sendPhoto has read the file, or has failed for there is
        \* none; a video or a document is sent as a text
        /\ tmp[h].pc = "mediaSend"
        /\ tmp' = [tmp EXCEPT ![h] =
             IF tmp[h].kind = "photo" /\ disk[tmp[h].path] = NoFile THEN NoTemp
             ELSE [@ EXCEPT !.pc = "mediaUnlink",
                            !.buffer = IF tmp[h].kind = "photo"
                                       THEN disk[tmp[h].path] ELSE h]]
        /\ UNCHANGED disk
     \/ \* E:409-413  unlink; its failure is swallowed
        /\ tmp[h].pc = "mediaUnlink"
        /\ disk' = [disk EXCEPT ![tmp[h].path] = NoFile]
        /\ tmp' = [tmp EXCEPT ![h] = NoTemp]
  /\ UNCHANGED clock
  /\ NamingFrame

\* E:320-366  handleTelegramVoice, but for its call of sendVoiceMessage.
handleTelegramVoice(h) ==
  /\ \/ \* E:322-327
        /\ tmp[h].pc = "idle"
        /\ tmp' = [tmp EXCEPT ![h] = [NoTemp EXCEPT !.pc = "voiceDownload",
                                                    !.kind = "voice"]]
        /\ UNCHANGED disk
     \/ \* E:327-332  the download ends; originalPath, and writeFile begins
        /\ tmp[h].pc = "voiceDownload"
        /\ \E ok \in BOOLEAN :
             tmp' = [tmp EXCEPT ![h] =
               IF ok THEN [@ EXCEPT !.pc = "voiceWrite",
                                    !.path = TempName("voice", clock, "ogg")]
               ELSE NoTemp]
        /\ UNCHANGED disk
     \/ \* E:332-346  the file is written; convertedPath, and ffmpeg begins
        /\ tmp[h].pc = "voiceWrite"
        /\ disk' = [disk EXCEPT ![tmp[h].path] = h]
        /\ tmp' = [tmp EXCEPT ![h].pc = "transcode",
                              ![h].converted = TempName("voice", clock, "m4a")]
     \/ \* E:337-349  ffmpeg ends: it has converted the file at originalPath,
        \* or has failed for there is none; sendVoiceMessage begins
        /\ tmp[h].pc = "transcode"
        /\ IF disk[tmp[h].path] = NoFile
           THEN tmp' = [tmp EXCEPT ![h] = NoTemp] /\ UNCHANGED disk
           ELSE /\ disk' = [disk EXCEPT ![tmp[h].converted] = disk[tmp[h].path]]
                /\ tmp' = [tmp EXCEPT ![h].pc = "voiceRead"]
     \/ \* E:355-360  unlink(originalPath); its failure ends the clean-up
        /\ tmp[h].pc = "voiceUnlink"
        /\ disk' = [disk EXCEPT ![tmp[h].path] = NoFile]
        /\ tmp' = [tmp EXCEPT ![h] = IF disk[tmp[h].path] = NoFile THEN NoTemp
                                       ELSE [@ EXCEPT !.pc = "voiceUnlinkConverted"]]
     \/ \* E:357  unlink(convertedPath)
        /\ tmp[h].pc = "voiceUnlinkConverted"
        /\ disk' = [disk EXCEPT ![tmp[h].converted] = NoFile]
        /\ tmp' = [tmp EXCEPT ![h] = NoTemp]
  /\ UNCHANGED clock
  /\ NamingFrame

\* part_000:225-257  sendVoiceMessage(threadId, convertedPath)
sendVoiceMessage(h) ==
  /\ \/ \* part_000:232-236  readFile ends, or throws for there is no file;
        \* tempPath, and writeFile begins
        /\ tmp[h].pc = "voiceRead"
        /\ tmp' = [tmp EXCEPT ![h] =
             IF disk[tmp[h].converted] = NoFile THEN NoTemp
             ELSE [@ EXCEPT !.pc = "voiceCopy", !.buffer = disk[tmp[h].converted],
                            !.upload = TempName("voice", clock, "m4a")]]
        /\ UNCHANGED disk
     \/ \* part_000:236-241  the copy is written and the send begins
        /\ tmp[h].pc = "voiceCopy"
        /\ disk' = [disk EXCEPT ![tmp[h].upload] = tmp[h].buffer]
        /\ tmp' = [tmp EXCEPT ![h].pc = "voiceSend"]
     \/ \* part_000:241-248  the send has read the copy, or has failed for
        \* there is none; unlink(tempPath) begins
        /\ tmp[h].pc = "voiceSend"
        /\ tmp' = [tmp EXCEPT ![h].pc = "voiceUnlinkUpload",
                              ![h].buffer = disk[tmp[h].upload]]
        /\ UNCHANGED disk
     \/ \* part_000:246-255, E:349-355  the copy is unlinked; the failure of
        \* the send is rethrown to the catch block of handleTelegramVoice
        /\ tmp[h].pc = "voiceUnlinkUpload"
        /\ disk' = [disk EXCEPT ![tmp[h].upload] = NoFile]
        /\ tmp' = [tmp EXCEPT ![h] = IF tmp[h].buffer = NoFile THEN NoTemp
                                       ELSE [@ EXCEPT !.pc = "voiceUnlink"]]
  /\ UNCHANGED clock
  /\ NamingFrame

NamingNext ==
  \/ DateNow
  \/ \E h \in Handlers : handleTelegramMedia(h)
  \/ \E h \in Handlers : handleTelegramVoice(h)
  \/ \E h \in Handlers : sendVoiceMessage(h)

(***************************************************************************)
(* COMMANDS                                                                *)
(*                                                                         *)
(* MessageHandler (part_001:824-881), the message handler that main of the *)
(* old bot registers (bot.js:652-655), and ModuleManager.getCommand        *)
(* (module-loader.js:64-81).  The modules themselves are outside the       *)
(* repository's sources: processMessage hands the message to each and      *)
(* swallows what they throw (module-loader.js:94-103); here a module       *)
(* returns the message it was given.  The usernames of the source are      *)
(* lower-case; the names of config.admin.users are what the operator typed.*)
(***************************************************************************)
NoCommandMessage ==
  [pc |-> "idle", text |-> <<>>, sender |-> <<>>, command |-> "none",
   ran |-> FALSE, replied |-> FALSE, forwarded |-> FALSE]

\* module-loader.js:64-81  buildCommandRegistry keys a command by
\* name.toLowerCase(); getCommand looks name.toLowerCase() up
getCommand(name) ==
  IF toLowerCase(name) \in DOMAIN commandRegistry
  THEN commandRegistry[toLowerCase(name)] ELSE "none"

\* part_001:878-880
isAdmin_Anyone(username) == TRUE
isAdmin(username) == toLowerCase(username) \in adminUsers

\* part_001:852-866  handleCommand up to its first await: the command name
\* is the first word of the text behind the '.'; an unknown command ends the
\* call, an adminOnly command of somebody else is answered '❌ Admin only',
\* any other command has its handler called.
handleCommand(rec) ==
  LET commandText == trim(SubSeq(rec.text, 2, Len(rec.text)))
      spaces == {i \in 1..Len(commandText) : commandText[i] = " "}
      commandName == IF spaces = {} THEN commandText
                     ELSE SubSeq(commandText, 1,
                            (CHOOSE i \in spaces : \A j \in spaces : i <= j) - 1)
      command == getCommand(commandName)
  IN  IF command = "none" THEN [rec EXCEPT !.pc = "idle"]
      ELSE IF command = "adminOnly" /\ ~isAdmin(rec.sender)
        THEN [rec EXCEPT !.pc = "replying", !.command = command, !.replied = TRUE]
        ELSE [rec EXCEPT !.pc = "running", !.command = command, !.ran = TRUE]

CommandFrame == UNCHANGED generation /\ UNCHANGED notCommand

\* part_001:831-850  MessageHandler.handleMessage(message)
handleMessage ==
  /\ \/ \* 831-834  called; await processMessage
        /\ cm.pc = "idle"
        /\ \E text \in Texts \cup {<<".">> \o text : text \in Texts},
              sender \in {<<"a">>, <<"b">>} :
             cm' = [NoCommandMessage EXCEPT !.pc = "processing", !.text = text,
                                            !.sender = sender]
     \/ \* 834-845  a command is handled; any other message is forwarded when
        \* the handler has a bridge that is enabled
        /\ cm.pc = "processing"
        /\ cm' = IF startsWith(cm.text, <<".">>) THEN handleCommand(cm)
                 ELSE IF forwarding.bridge = "enabled" /\ forwarding.configured
                   THEN [cm EXCEPT !.pc = "forwarding", !.forwarded = TRUE]
                   ELSE [cm EXCEPT !.pc = "idle"]
     \/ \* 861-862, 843-849  the reply or the forward ends, well or not
        /\ cm.pc \in {"replying", "forwarding", "reporting"}
        /\ cm' = [cm EXCEPT !.pc = "idle"]
     \/ \* 865-875  the handler of the command returns, or throws and the
        \* error is reported to the thread
        /\ cm.pc = "running"
        /\ \E ok \in BOOLEAN :
             cm' = [cm EXCEPT !.pc = IF ok THEN "idle" ELSE "reporting"]
  /\ UNCHANGED <<adminUsers, commandRegistry, forwarding>>
  /\ CommandFrame

CommandNext == handleMessage

(***************************************************************************)
(* TIMERS                                                                  *)
(*                                                                         *)
(* The intervals of the two bots: the polling timer of the enhanced bot    *)
(* (part_000:79-99, 297-307) and the message-requests monitor of the old   *)
(* bot (bot.js:583-616).  The runtime gives every setInterval a new id and *)
(* holds the interval until clearInterval is called with that id.  The     *)
(* calls are made one after another, each awaited, as main makes them      *)
(* (E:616, bot.js:644-658, 670-672): while a login is under way no other   *)
(* call is made.                                                           *)
(***************************************************************************)
\* The most intervals set in one run.
MaxTimers == 8

TimerFrame ==
  /\ UNCHANGED <<generation, polls, authOutcome, crashed>>
  /\ UNCHANGED <<dedupState, mapperState, reverseState, relayState, lifecycleState,
                 dispatchState, shutdownState, namingState, commandState>>

\* part_000:24-60, 73-76  login(): without credentials it throws at once;
\* else it awaits the session file, read or written, and that may fail.
login ==
  /\ generation = "enhanced"
  /\ \/ /\ botCall # "loggingIn"
        /\ \E configured \in BOOLEAN :
             botCall' = IF configured THEN "loggingIn" ELSE "loginFailed"
     \/ /\ botCall = "loggingIn"
        /\ botCall' = "loginFailed"
  /\ UNCHANGED <<activeTimers, intervals, nextTimer, isRunning, sessionFile,
                 pollingInterval>>
  /\ TimerFrame

\* part_000:79-99  startMessagePolling(), called by itself or at the end of a
\* login that succeeds (part_000:24-69: the session file exists by then,
\* isRunning is set): an interval that is set is cleared, and a new one set.
startMessagePolling_Another(caller) ==
  /\ generation = "enhanced"
  /\ caller \in {"login", "startMessagePolling"}
  /\ caller = "login" <=> botCall = "loggingIn"
  /\ nextTimer <= MaxTimers
  /\ activeTimers' = activeTimers \cup {[kind |-> "polling", id |-> nextTimer]}
  /\ intervals' = [intervals EXCEPT !.polling = nextTimer]
  /\ nextTimer' = nextTimer + 1
  /\ botCall' = caller
  /\ isRunning' = (caller = "login" \/ isRunning)
  /\ sessionFile' = (caller = "login" \/ sessionFile)
  /\ pollingInterval' = TRUE
  /\ TimerFrame
startMessagePolling(caller) ==
  /\ generation = "enhanced"
  /\ caller \in {"login", "startMessagePolling"}
  /\ caller = "login" <=> botCall = "loggingIn"
  /\ nextTimer <= MaxTimers
  /\ activeTimers' =
       (IF intervals.polling # 0
        THEN activeTimers \ {[kind |-> "polling", id |-> intervals.polling]}
        ELSE activeTimers) \cup {[kind |-> "polling", id |-> nextTimer]}
  /\ intervals' = [intervals EXCEPT !.polling = nextTimer]
  /\ nextTimer' = nextTimer + 1
  /\ botCall' = caller
  /\ isRunning' = (caller = "login" \/ isRunning)
  /\ sessionFile' = (caller = "login" \/ sessionFile)
  /\ pollingInterval' = TRUE
  /\ TimerFrame

\* bot.js:583-603  startMessageRequestsMonitor()
startMessageRequestsMonitor ==
  /\ generation = "old"
  /\ nextTimer <= MaxTimers
  /\ activeTimers' =
       (IF intervals.monitor # 0
        THEN activeTimers \ {[kind |-> "monitor", id |-> intervals.monitor]}
        ELSE activeTimers) \cup {[kind |-> "monitor", id |-> nextTimer]}
  /\ intervals' = [intervals EXCEPT !.monitor = nextTimer]
  /\ nextTimer' = nextTimer + 1
  /\ botCall' = "startMessageRequestsMonitor"
  /\ UNCHANGED <<isRunning, sessionFile, pollingInterval>>
  /\ TimerFrame

\* part_000:297-307, bot.js:607-637  disconnect(): isRunning is cleared, the
\* interval that is set is cleared and its field set to null; the old bot
\* then awaits setForegroundState and realtime.disconnect, whose failures it
\* swallows.
disconnect ==
  /\ botCall # "loggingIn"
  /\ LET kind == IF generation = "enhanced" THEN "polling" ELSE "monitor" IN
       /\ activeTimers' =
            IF intervals[kind] # 0
            THEN activeTimers \ {[kind |-> kind, id |-> intervals[kind]]}
            ELSE activeTimers
       /\ intervals' = [intervals EXCEPT ![kind] = 0]
  /\ isRunning' = FALSE
  /\ pollingInterval' = FALSE
  /\ botCall' = "disconnect"
  /\ UNCHANGED <<nextTimer, sessionFile>>
  /\ TimerFrame

TimerNext ==
  \/ login
  \/ startMessagePolling("login")
  \/ startMessagePolling("startMessagePolling")
  \/ startMessageRequestsMonitor
  \/ disconnect

(***************************************************************************)
(* SPECIFICATIONS                                                          *)
(***************************************************************************)
\* A component that does not run stays as its constructor left it.
DedupIdle ==
  /\ processedMessageIds = <<>>
  /\ lastMessageCheck = 0
  /\ dispatched = [i \in MsgIds |-> 0]
  /\ lastAccept = NoCall
  /\ oldProcessedMessageIds = <<>>
  /\ oldDispatched = [i \in MsgIds |-> 0]
  /\ oldLastAccept = NoCall
  /\ delivered = {}
  /\ pollStart = lastMessageCheck

MapperIdle ==
  /\ welcomeMessage = TRUE
  /\ store = NoMappings
  /\ chatMappings = NoMappings
  /\ creatingTopics = [t \in Threads |-> "absent"]
  /\ topicVerificationCache = {}
  /\ topics = {}
  /\ nextTopicId = 1
  /\ fw = [p \in Procs |-> Idle]
  /\ welcomed = {}

ReverseIdle ==
  /\ tempFiles = {}
  /\ tg = [h \in Handlers |-> NoEvent]

PollIdle ==
  /\ isRunning = FALSE
  /\ pollingInterval = FALSE
  /\ polls = [k \in Ticks |-> "idle"]
  /\ sessionFile = FALSE
  /\ authOutcome = "none"
  /\ crashed = FALSE

RelayIdle ==
  /\ filters = {}
  /\ relay = NoRelay
  /\ userMappings = NoProfiles
  /\ userRecords = NoProfiles
  /\ forwards = [s \in Senders |-> 0]

DispatchIdle ==
  /\ messageHandlers = 0
  /\ hm = [d \in Dispatchers |-> NoDispatch]

\* No media handler runs and the temp directory is empty (E:40).
NamingIdle ==
  /\ clock = 0
  /\ disk = [f \in {TempName(name[1], now, name[2]) :
                      name \in {<<"voice", "ogg">>, <<"voice", "m4a">>,
                                <<"photo", "jpg">>, <<"video", "mp4">>,
                                <<"document", "">>},
                      now \in 0..MaxClock}
                   \cup {<<"report", 0, "pdf">>}
               |-> NoFile]
  /\ tmp = [h \in Handlers |-> NoTemp]

\* No module has a command, nobody is an admin, and the MessageHandler has no
\* bridge (bot.js:652).
CommandIdle ==
  /\ adminUsers = {}
  /\ commandRegistry = <<>>
  /\ forwarding = [bridge |-> "null", configured |-> FALSE]
  /\ cm = NoCommandMessage

\* No call has been made and no interval is set (part_000:8-17, bot.js:13-21).
TimerIdle ==
  /\ activeTimers = {}
  /\ intervals = [polling |-> 0, monitor |-> 0]
  /\ nextTimer = 1
  /\ botCall = "none"

\* No signal has arrived, and main has not come to its heartbeat timer.
ShutdownIdle ==
  /\ stop = "running"
  /\ heartbeat = FALSE

\* The bridge as its constructor left it (E:11-25, O:12-26), unconfigured.
LifecycleIdle ==
  /\ telegramConfig = [botToken |-> "missing", chatId |-> "missing"]
  /\ init = "constructed"
  /\ db = FALSE
  /\ collection = FALSE
  /\ telegramBot = FALSE
  /\ listening = FALSE
  /\ enabled = FALSE
  /\ initFailure = "none"
  /\ lastForward = "none"

\* The bridge after an initialize() in which every step succeeded
\* (E:50, O:54).
LifecycleRunning ==
  /\ telegramConfig = [botToken |-> "string", chatId |-> "string"]
  /\ init = "done"
  /\ db = TRUE
  /\ collection = TRUE
  /\ telegramBot = TRUE
  /\ listening = TRUE
  /\ enabled = TRUE
  /\ initFailure = "none"
  /\ lastForward = "none"

\* Each component is checked from its own start with the others at rest.
DedupStart ==
  /\ DedupInit /\ MapperIdle /\ ReverseIdle /\ PollIdle
  /\ RelayIdle /\ LifecycleIdle /\ DispatchIdle
  /\ ShutdownIdle
  /\ TimerIdle
  /\ CommandIdle
  /\ NamingIdle

DedupSpec == DedupStart /\ [][DedupNext]_vars

\* The pipelines run in an initialized bridge.
MapperStart ==
  /\ MapperInit /\ DedupIdle /\ ReverseIdle /\ PollIdle
  /\ RelayIdle /\ LifecycleRunning /\ DispatchIdle
  /\ ShutdownIdle
  /\ TimerIdle
  /\ CommandIdle
  /\ NamingIdle

MapperSpec == MapperStart /\ [][MapperNext]_vars

\* The mapper after a restart of a deployment in which one thread has its
\* topic: loadMappingsFromDb (E:75-102, O:80-109) has filled the map from
\* the store.
MapperLoaded ==
  /\ welcomeMessage = TRUE
  /\ store = [NoMappings EXCEPT !["t1"] = 1]
  /\ chatMappings = [NoMappings EXCEPT !["t1"] = 1]
  /\ creatingTopics = [t \in Threads |-> "absent"]
  /\ topicVerificationCache = {}
  /\ topics = {1}
  /\ nextTopicId = 2
  /\ fw = [p \in Procs |-> Idle]
  /\ welcomed = {1}

\* The filters loadFiltersFromDb (O:184-196) has loaded in the old bridge;
\* the enhanced bridge never fills its set (E:24).
ReverseFilters ==
  /\ filters \in (IF generation = "old" THEN {{}, {<<"a">>}} ELSE {{}})
  /\ relay = NoRelay
  /\ userMappings = NoProfiles
  /\ userRecords = NoProfiles
  /\ forwards = [s \in Senders |-> 0]

\* The reverse pipeline runs in an initialized bridge of either generation
\* with one mapped thread.
ReverseStart ==
  /\ generation \in {"enhanced", "old"}
  /\ ReverseInit /\ DedupIdle /\ MapperLoaded /\ PollIdle
  /\ ReverseFilters /\ LifecycleRunning /\ DispatchIdle
  /\ ShutdownIdle
  /\ TimerIdle
  /\ CommandIdle
  /\ NamingIdle

ReverseSpec == ReverseStart /\ [][ReverseNext]_vars

\* The poller exists in the enhanced program only.
PollStart ==
  /\ generation = "enhanced"
  /\ PollInit /\ DedupIdle /\ MapperIdle /\ ReverseIdle
  /\ RelayIdle /\ LifecycleIdle /\ DispatchIdle
  /\ ShutdownIdle
  /\ TimerIdle
  /\ CommandIdle
  /\ NamingIdle

PollSpec == PollStart /\ [][PollNext]_vars

RelayStart ==
  /\ RelayInit /\ DedupIdle /\ MapperIdle /\ ReverseIdle /\ PollIdle
  /\ LifecycleRunning /\ DispatchIdle
  /\ ShutdownIdle
  /\ TimerIdle
  /\ CommandIdle
  /\ NamingIdle

RelaySpec == RelayStart /\ [][RelayNext]_vars

\* The user mappings of a bridge of either generation that has loaded no
\* user record.
ProfileStart ==
  /\ generation \in {"enhanced", "old"}
  /\ RelayIdle /\ DedupIdle /\ MapperIdle /\ ReverseIdle /\ PollIdle
  /\ LifecycleRunning /\ DispatchIdle
  /\ ShutdownIdle
  /\ TimerIdle
  /\ CommandIdle
  /\ NamingIdle

ProfileSpec == ProfileStart /\ [][ProfileNext]_vars

LifecycleStart ==
  /\ LifecycleInit /\ DedupIdle /\ MapperIdle /\ ReverseIdle /\ PollIdle
  /\ RelayIdle /\ DispatchIdle
  /\ ShutdownIdle
  /\ TimerIdle
  /\ CommandIdle
  /\ NamingIdle

LifecycleSpec == LifecycleStart /\ [][LifecycleNext]_vars

\* The mapper before initialize of a deployment in which one thread has its
\* topic: the record is in the store, the map is empty (E:14, O:14).
MapperStored ==
  /\ welcomeMessage = TRUE
  /\ store = [NoMappings EXCEPT !["t1"] = 1]
  /\ chatMappings = NoMappings
  /\ creatingTopics = [t \in Threads |-> "absent"]
  /\ topicVerificationCache = {}
  /\ topics = {1}
  /\ nextTopicId = 2
  /\ fw = [p \in Procs |-> Idle]
  /\ welcomed = {1}

\* A text posted in the topic of the mapped thread.
TextNote ==
  [chat |-> "bridge", chatType |-> "supergroup", inTopic |-> TRUE, topicId |-> 1,
   kind |-> "text", text |-> <<"b">>, caption |-> FALSE]

\* initialize() of a bridge with a stored mapping, while the source
\* delivers messages of the mapped thread (main calls sendToTelegram,
\* E:623-631) and the destination delivers texts posted in its topic.
GateStart ==
  /\ LifecycleInit /\ DedupIdle /\ MapperStored /\ ReverseIdle /\ PollIdle
  /\ RelayIdle /\ DispatchIdle
  /\ ShutdownIdle
  /\ TimerIdle
  /\ CommandIdle
  /\ NamingIdle

GateNext ==
  \/ LifecycleNext
  \/ StartEvent("h1", TextNote)
  \/ AfterSendText("h1")
  \/ StartForward("p1", "t1")
  \/ AfterVerifyTopic("p1")
  \/ AfterSendMessage("p1")

GateSpec == GateStart /\ [][GateNext]_vars

DispatchStart ==
  /\ DispatchInit /\ DedupIdle /\ MapperIdle /\ ReverseIdle /\ PollIdle
  /\ RelayIdle /\ LifecycleIdle
  /\ ShutdownIdle
  /\ TimerIdle
  /\ CommandIdle
  /\ NamingIdle

DispatchSpec == DispatchStart /\ [][DispatchNext]_vars

\* The poller after login (part_000:24-72): running, the timer set.
PollRunning ==
  /\ isRunning = TRUE
  /\ pollingInterval = TRUE
  /\ polls = [k \in Ticks |-> "idle"]
  /\ sessionFile = TRUE
  /\ authOutcome = "none"
  /\ crashed = FALSE

\* The running program of main (E:609-660): logged in, the bridge
\* initialized with one mapped thread, the handlers and the heartbeat set.
ShutdownStart ==
  /\ generation = "enhanced"
  /\ DedupIdle /\ MapperLoaded /\ ReverseInit /\ PollRunning
  /\ RelayIdle /\ LifecycleRunning /\ DispatchIdle
  /\ stop = "running"
  /\ heartbeat = TRUE
  /\ TimerIdle
  /\ CommandIdle
  /\ NamingIdle

ShutdownSpec == ShutdownStart /\ [][ShutdownNext]_vars

\* The enhanced bridge at work (E:27-56), its media handlers idle.
NamingStart ==
  /\ generation = "enhanced"
  /\ DedupIdle /\ MapperLoaded /\ ReverseInit /\ PollIdle
  /\ RelayIdle /\ LifecycleRunning /\ DispatchIdle
  /\ ShutdownIdle
  /\ TimerIdle
  /\ CommandIdle
  /\ NamingIdle

NamingSpec == NamingStart /\ [][NamingNext]_vars

\* The MessageHandler of a configured bot: no command or the command "a",
\* open or adminOnly; the admins; a bridge, or none.
CommandStart ==
  /\ generation = "old"
  /\ DedupIdle /\ MapperIdle /\ ReverseIdle /\ PollIdle
  /\ RelayIdle /\ LifecycleIdle /\ DispatchIdle
  /\ ShutdownIdle
  /\ TimerIdle
  /\ NamingIdle
  /\ adminUsers \in SUBSET {<<"a">>, <<"A">>}
  /\ commandRegistry \in UNION {[names -> {"open", "adminOnly"}] :
                                  names \in SUBSET {<<"a">>}}
  /\ forwarding \in [bridge : {"null", "disabled", "enabled"}, configured : BOOLEAN]
  /\ cm = NoCommandMessage

CommandSpec == CommandStart /\ [][CommandNext]_vars

\* A bot as its constructor left it; the session file of an earlier run may
\* exist.
TimerStart ==
  /\ generation \in {"enhanced", "old"}
  /\ PollInit /\ DedupIdle /\ MapperIdle /\ ReverseIdle
  /\ RelayIdle /\ LifecycleIdle /\ DispatchIdle
  /\ ShutdownIdle
  /\ NamingIdle
  /\ CommandIdle
  /\ TimerIdle

TimerSpec == TimerStart /\ [][TimerNext]_vars

\* The whole program: every component runs.
Init ==
  /\ DedupInit /\ MapperInit /\ ReverseInit /\ PollInit
  /\ RelayIdle /\ LifecycleInit /\ DispatchInit
  /\ ShutdownIdle
  /\ TimerIdle
  /\ CommandIdle
  /\ NamingIdle
Next ==
  \/ DedupNext \/ MapperNext \/ ReverseNext \/ PollNext
  \/ RelayNext \/ ProfileNext \/ LifecycleNext \/ DispatchNext
  \/ NamingNext \/ CommandNext \/ TimerNext
Spec == Init /\ [][Next]_vars

(***************************************************************************)
(* CLAIMS: DEDUP WINDOW (checked under DedupSpec)                          *)
(***************************************************************************)

\* C2 (as claimed): of the inbound messages that carry the same id, only the
\* first is passed to the registered handlers, whatever arrives in between:
\* no id is dispatched a second time, by the polling listener or by the
\* realtime listener.
C2_SecondNeverForwarded ==
  \A i \in MsgIds : dispatched[i] <= 1 /\ oldDispatched[i] <= 1

\* The relation between one isNewMessage call and the state around it, for a
\* given rejection condition: a rejected message returns false and changes
\* nothing; any other message returns true, is in the set afterwards (nothing
\* else is added) and leaves the high-watermark at max(old, timestamp).
AcceptContract(rejected) ==
  LET m == lastAccept.message IN
  /\ rejected =>
        /\ lastAccept.result = FALSE
        /\ processedMessageIds = lastAccept.ids
        /\ lastMessageCheck = lastAccept.watermark
  /\ ~rejected =>
        /\ lastAccept.result = TRUE
        /\ m.id \in Range(processedMessageIds)
        /\ Range(processedMessageIds) \subseteq Range(lastAccept.ids) \cup {m.id}
        /\ lastMessageCheck = Max(lastAccept.watermark, m.timestamp)

\* C3 (as claimed): isNewMessage(message) returns false exactly when
\* message.id is already in the recent-id set or message.timestamp <=
\* lastMessageCheck, and then changes nothing; otherwise it returns true, adds
\* the id and sets lastMessageCheck to max(lastMessageCheck, timestamp).
C3_AcceptContractAsClaimed ==
  lastAccept.called =>
    AcceptContract(\/ Has(lastAccept.ids, lastAccept.message.id)
                   \/ lastAccept.message.timestamp <= lastAccept.watermark)

\* C3 (amended): isNewMessage(message) returns false exactly when message.id
\* is missing, or already in the recent-id set, or message.timestamp <=
\* lastMessageCheck, and then changes nothing; otherwise it returns true, adds
\* the id and sets lastMessageCheck to max(lastMessageCheck, timestamp).
C3_AcceptContract ==
  lastAccept.called =>
    AcceptContract(\/ lastAccept.message.id = NoId
                   \/ Has(lastAccept.ids, lastAccept.message.id)
                   \/ lastAccept.message.timestamp <= lastAccept.watermark)

\* C3 witness: a message has been accepted and has advanced the watermark
\* while the set already held another id.
C3_Witness ==
  /\ lastAccept.called
  /\ lastAccept.result
  /\ lastAccept.ids # <<>>
  /\ lastAccept.message.timestamp > lastAccept.watermark
  /\ lastMessageCheck = lastAccept.message.timestamp

\* The effect of one accept call on the insertion-ordered set: a rejected id
\* leaves the order as it was (no refresh), an accepted id is appended, and
\* when the set was full the id inserted first is the one dropped.
FifoStep(before, after, id, accepted) ==
  /\ ~accepted => after = before
  /\ accepted /\ Len(before) < maxProcessedMessageIds => after = Append(before, id)
  /\ accepted /\ Len(before) = maxProcessedMessageIds =>
        after = Append(Tail(before), id)

\* C4: the recent-id set never holds more than maxProcessedMessageIds ids,
\* and an insertion into a full set evicts the id inserted earliest
\* (insertion-order FIFO; a re-check of a held id does not refresh it), in
\* the polling bot (isNewMessage) and in the realtime bot (isNewMessageById).
C4_BoundedFifo ==
  /\ Len(processedMessageIds) <= maxProcessedMessageIds
  /\ Len(oldProcessedMessageIds) <= maxProcessedMessageIds
  /\ lastAccept.called =>
        FifoStep(lastAccept.ids, processedMessageIds, lastAccept.message.id,
                 lastAccept.result)
  /\ oldLastAccept.called =>
        FifoStep(oldLastAccept.ids, oldProcessedMessageIds, oldLastAccept.id,
                 oldLastAccept.result /\ oldLastAccept.id # NoId)

\* C4 witness: an id has been accepted into a full set:
\* the id inserted first is gone and the new id is the newest.
C4_Witness ==
  /\ lastAccept.called
  /\ lastAccept.result
  /\ Len(lastAccept.ids) = maxProcessedMessageIds
  /\ ~Has(processedMessageIds, Head(lastAccept.ids))
  /\ processedMessageIds[Len(processedMessageIds)] = lastAccept.message.id

\* C33: no step lowers the high-watermark, and after every accept call that
\* accepts a message the watermark is at least the timestamp of that
\* message; hence it is at least the timestamp of every message accepted so
\* far.
C33_WatermarkMonotone ==
  [][/\ lastMessageCheck' >= lastMessageCheck
     /\ lastAccept'.called /\ lastAccept'.result =>
          lastAccept'.message.timestamp <= lastMessageCheck']_vars

\* A second message has been accepted and has raised the watermark to its
\* timestamp.
C33_Witness ==
  /\ lastAccept.called /\ lastAccept.result
  /\ Len(lastAccept.ids) >= 1
  /\ lastAccept.message.timestamp > lastAccept.watermark
  /\ lastMessageCheck = lastAccept.message.timestamp

\* C34 (as claimed): within one poll every returned message that has a fresh
\* id and a timestamp above the watermark the poll started with is accepted
\* and dispatched, in whatever order the messages are returned.
C34_PollOrderIrrelevant ==
  [][/\ generation = "enhanced"
     /\ pollStart' = pollStart
     /\ lastAccept'.called
     /\ lastAccept'.message.id # NoId
     /\ ~Has(processedMessageIds, lastAccept'.message.id)
     /\ dispatched[lastAccept'.message.id] = 0
     /\ lastAccept'.message.timestamp > pollStart
     => /\ lastAccept'.result
        /\ dispatched'[lastAccept'.message.id] = 1]_vars

\* C22 (as claimed): a message whose delivery to the destination did not
\* complete is not committed to the dedup window of the listener, so that a
\* later poll or event accepts it again: every id in a window is the id of a
\* delivered message.
C22_CommittedOnlyWhenDelivered ==
  \A id \in MsgIds :
    Has(processedMessageIds, id) \/ Has(oldProcessedMessageIds, id) =>
      id \in delivered

(***************************************************************************)
(* CLAIMS: TOPIC MAPPER AND FORWARD PIPELINE (checked under MapperSpec)    *)
(***************************************************************************)

\* The creation routine of a call starts in this step only if no other call
\* for the thread is in flight: overlapping calls issue one createForumTopic
\* request.
RequestsOnce ==
  \A p \in Procs :
    fw[p].pc = "idle" /\ fw'[p].pc \in InCreation => InFlight(fw'[p].thread) = {}

\* When a call for t returns in this step, every call for t that is in
\* flight returns in this step, and all of them hold the same value.
ReturnTogether ==
  \A t \in Threads :
    LET before == InFlight(t)
        after == {p \in Procs : fw'[p].thread = t /\ fw'[p].pc \in InGetOrCreate}
    IN before \ after # {} =>
         /\ after = {}
         /\ \A p, q \in before : fw'[p].topic = fw'[q].topic

\* C1: for every thread t and every interleaving of overlapping
\* getOrCreateTopic(t, .) calls issued while no mapping for t is cached, at
\* most one creation routine runs and requests a topic, and all the calls
\* return together with the same value.
C1_SingleFlight ==
  /\ [](\A t \in Threads : Cardinality(Creators(t)) <= 1)
  /\ [][RequestsOnce /\ ReturnTogether]_vars

\* C1 witness: a call has created a topic for a thread and saved the mapping,
\* and a second call for the thread, issued meanwhile, awaits its result.
C1_Witness ==
  \E p, q \in Procs :
    /\ fw[p].pc = "welcome" /\ fw[p].saved
    /\ fw[q].pc = "joined" /\ fw[q].thread = fw[p].thread

\* C5 (as claimed): whenever the creation routine of getOrCreateTopic(t, .)
\* returns the id of the topic it created, saveChatMapping has written the
\* mapping to the store and to the map.
C5_SavedBeforeReturn ==
  [][\A p \in Procs :
       fw[p].pc \in {"saving", "welcome"} /\ fw'[p].pc \notin InGetOrCreate =>
         \/ fw[p].pc = "welcome" /\ fw[p].saved
         \/ /\ fw[p].pc = "saving"
            /\ store'[fw[p].thread] = fw[p].topic
            /\ chatMappings'[fw[p].thread] = fw[p].topic]_vars

\* C6 (as claimed): a failed creation leaves nothing behind: whenever no call
\* for t is in flight and t has no mapping, the next getOrCreateTopic(t, .)
\* issues a creation request (it finds no entry in the creation table).
C6_NextCallRetries ==
  \A t \in Threads :
    InFlight(t) = {} /\ chatMappings[t] = NoTopic => ~CreationInProgress(t)

\* C7: the in-memory mapping is a bijection between the mapped threads and
\* their topics: no topic id is mapped from two different thread ids.
C7_Bijection ==
  \A t1, t2 \in Threads :
    t1 # t2 /\ chatMappings[t1] # NoTopic => chatMappings[t1] # chatMappings[t2]

\* C7 witness: two threads are mapped, the mappings are persisted, and no
\* invocation runs (the state a restart loads).
C7_Witness ==
  /\ chatMappings["t1"] # NoTopic
  /\ chatMappings["t2"] # NoTopic
  /\ store = chatMappings
  /\ \A p \in Procs : fw[p].pc = "idle"

\* C8 (as claimed): a forward attempt for t that finds the topic of t deleted
\* on the destination ends without sending, and when it ends neither the map
\* nor the store maps t to that topic.
C8_StaleMappingRemoved ==
  [][\A p \in Procs :
       /\ \/ fw[p].pc = "deleting"
          \/ fw[p].pc = "sending" /\ fw[p].topic \notin topics
       /\ fw'[p].pc = "idle"
       => /\ chatMappings'[fw[p].thread] # fw[p].topic
          /\ store'[fw[p].thread] # fw[p].topic]_vars

\* C23 (as claimed): whenever no getOrCreateTopic call is executing, the
\* in-flight creation table is empty: the entry of a thread is removed on the
\* success path and on every failure path.
C23_TableEmptyWhenQuiet ==
  (\A p \in Procs : fw[p].pc \notin InGetOrCreate) =>
    \A t \in Threads : creatingTopics[t] = "absent"

\* C25 (as claimed): at every point where no mapping operation is in
\* progress (no sendToTelegram invocation is under way), the in-memory map
\* equals the chat records of the store.
C25_MapEqualsStore ==
  (\A p \in Procs : fw[p].pc = "idle") => chatMappings = store

\* C30: a getOrCreateTopic call for a thread that has a cached mapping
\* returns the cached topic id at once: in the step in which the call is
\* made it is out of getOrCreateTopic holding the cached id, no topic has
\* been requested or created, and the store and the creation table are
\* unchanged; the map is unchanged too, unless sendSimpleMessage, which runs
\* next in the same step, drops the mapping of a topic it knows to be gone.
C30_CachedReturnsAtOnce ==
  [][\A p \in Procs :
       /\ fw[p].pc = "idle" /\ fw'[p].pc # "idle"
       /\ chatMappings[fw'[p].thread] # NoTopic
       => /\ fw'[p].topic = chatMappings[fw'[p].thread]
          /\ fw'[p].pc \notin InGetOrCreate
          /\ UNCHANGED <<store, creatingTopics, nextTopicId, topics>>
          /\ fw'[p].pc # "deleting" => UNCHANGED chatMappings]_vars

\* C30 witness: thread t1 has its mapping and a call for it awaits the send
\* into its topic, while the other call creates the topic of thread t2.
C30_Witness ==
  /\ chatMappings["t1"] = 1
  /\ fw["p2"].pc = "sending" /\ fw["p2"].thread = "t1" /\ fw["p2"].topic = 1
  /\ fw["p1"].pc = "creating" /\ fw["p1"].thread = "t2"

\* C32 (as claimed): whenever the mapping that involves a topic is created,
\* replaced or deleted, the verification cache holds no verdict for that
\* topic afterwards, so that the next verification asks the destination.
C32_VerdictInvalidated ==
  [][\A x \in TopicIds :
       (\E t \in Threads : (chatMappings[t] = x) # (chatMappings'[t] = x)) =>
         ~CacheHas(topicVerificationCache', TopicKey(x))]_vars

\* C35 (as claimed): a stale-mapping deletion by an invocation that tried to
\* send into topic s for thread t removes only the mapping t -> s: a fresh
\* mapping of t to another topic, created meanwhile, stays in the map and in
\* the store.
C35_DeletesOnlyStaleMapping ==
  [][\A p \in Procs :
       LET t == fw[p].thread IN
       /\ fw[p].pc # "deleting" /\ fw'[p].pc = "deleting"
            /\ chatMappings[t] \notin {NoTopic, fw'[p].topic}
            => chatMappings'[t] = chatMappings[t]
       /\ fw[p].pc = "deleting" /\ fw'[p].pc # "deleting"
            /\ store[t] \notin {NoTopic, fw[p].topic}
            => store'[t] = store[t]]_vars

\* C31: a welcome message is sent into a topic at most once, and when
\* sendWelcomeMessage has settled, by success or by failure of the send or
\* of the pin, getOrCreateTopic returns the id of the new topic and the
\* mapping written for the thread is in the map and in the store as before
\* (the send that follows in sendToTelegram may then find the topic deleted
\* on the destination and drop the mapping as stale).
C31_WelcomeNotFatal ==
  [][\A p \in Procs :
       /\ fw[p].pc # "welcome" /\ fw'[p].pc = "welcome" =>
            fw'[p].topic \notin welcomed
       /\ fw[p].pc = "welcome" /\ fw'[p].pc # "welcome" =>
            /\ fw'[p].topic = fw[p].topic
            /\ fw'[p].pc \in {"sending", "verifying", "deleting"}
            /\ store' = store
            /\ fw'[p].pc # "deleting" => chatMappings' = chatMappings]_vars

\* getOrCreateTopic has returned the welcomed topic of a thread whose
\* mapping was saved, and the message is on its way into the topic.
C31_Witness ==
  \E p \in Procs :
    /\ fw[p].pc \in {"sending", "verifying"}
    /\ fw[p].topic \in welcomed
    /\ chatMappings[fw[p].thread] = fw[p].topic
    /\ store[fw[p].thread] = fw[p].topic
    /\ fw[p].topic = MaxTopicId

(***************************************************************************)
(* CLAIMS: REVERSE PIPELINE (checked under ReverseSpec)                    *)
(***************************************************************************)

\* C9 (as claimed): when the reverse pipeline has finished handling a voice
\* or media event, on whatever path, no temporary file written for the event
\* remains in the temp directory.
C9_NoTempFilesRemain ==
  [][\A h \in Handlers :
       tg[h].pc # "idle" /\ tg'[h].pc = "idle" => tempFiles' \cap FilesOf(h) = {}]_vars

\* The handler has handled an event and returned.
Finished(h) == tg[h].started /\ tg[h].pc = "idle"

\* The topic of the handler's event has a thread in the mapping cache.
InMappedTopic(rec) ==
  rec.topic # NoTopic /\ \E t \in Threads : chatMappings[t] = rec.topic

\* C12: every destination event in a mapped sub-channel that passes the
\* filter ends with exactly one terminal acknowledgment, the success marker
\* if the send to the source succeeded and the error marker if it failed; no
\* event ever has a second marker (so a success marker is never followed by
\* an error marker); and a failed send is not retried: after the first send
\* of an event the only further send is that of a caption, when the send of
\* the photo has succeeded.
C12_OneTerminalAck ==
  /\ [](\A h \in Handlers :
          /\ Len(tg[h].acks) <= 1
          /\ Finished(h) /\ InMappedTopic(tg[h]) /\ ~tg[h].blocked =>
               tg[h].acks = <<IF tg[h].sent THEN "success" ELSE "error">>)
  /\ [][\A h \in Handlers :
          tg[h].pc # "idle" /\ tg[h].sends > 0 /\ tg'[h].sends > tg[h].sends =>
            tg[h].pc = "sendingMedia" /\ tg'[h].pc = "sendingCaption"]_vars

\* C12 witness: one event has ended with the error marker after its send
\* failed, another with the success marker after its send succeeded.
C12_Witness ==
  /\ Finished("h1") /\ InMappedTopic(tg["h1"])
  /\ tg["h1"].sends = 1 /\ ~tg["h1"].sent /\ tg["h1"].acks = <<"error">>
  /\ Finished("h2") /\ InMappedTopic(tg["h2"])
  /\ tg["h2"].sent /\ tg["h2"].acks = <<"success">>

\* C13: a destination event whose topic has no thread in the mapping cache
\* is acknowledged with the unknown marker and handling stops: the handler
\* returns in the same step, nothing is sent to the source, and the mappings,
\* the store and the topics are unchanged.
C13_UnknownTopicStops ==
  [][\A h \in Handlers :
       /\ tg[h].pc = "idle" /\ tg'[h] # tg[h]
       /\ tg'[h].topic # NoTopic /\ ~InMappedTopic(tg'[h])
       => /\ tg'[h].pc = "idle"
          /\ tg'[h].acks = <<"unknown">>
          /\ tg'[h].sends = 0
          /\ UNCHANGED mapperState]_vars

\* C13 witness: an event in the unmapped topic 2 has been handled while the
\* other handler is sending the text of an event in the mapped topic 1.
C13_Witness ==
  /\ Finished("h1") /\ tg["h1"].topic = 2 /\ tg["h1"].acks = <<"unknown">>
  /\ tg["h2"].pc = "sendingText" /\ tg["h2"].topic = 1

\* C14 (as claimed): a destination event that is not inside a topic, or that
\* comes from a chat other than the bridge's chat, is ignored: no marker is
\* set on it and nothing is sent to the source.
C14_OutOfScopeIgnored ==
  \A h \in Handlers :
    tg[h].started /\ ~tg[h].scoped => tg[h].acks = <<>> /\ tg[h].sends = 0

\* C37 (as claimed): no message crosses conversations.  A source message of
\* a thread is on its way only into a topic that no other thread is mapped
\* to and no message of another thread is sent into; and a handler that has
\* requested a send to the source handles an event of a topic of the
\* bridge's chat to which a thread is mapped.
C37_NoCrossing ==
  /\ \A p \in Procs :
       fw[p].pc = "sending" =>
         /\ \A t \in Threads \ {fw[p].thread} :
              chatMappings[t] # fw[p].topic /\ store[t] # fw[p].topic
         /\ \A q \in Procs :
              fw[q].topic = fw[p].topic /\ fw[q].pc # "idle" =>
                fw[q].thread = fw[p].thread
  /\ \A h \in Handlers :
       tg[h].sends > 0 =>
         /\ tg[h].scoped
         /\ \E t \in Threads : chatMappings[t] = tg[h].topic

(***************************************************************************)
(* CLAIMS: POLLING AND RE-AUTHENTICATION (checked under PollSpec)          *)
(***************************************************************************)

\* A run of the timer callback is inside handleAuthenticationError.
Reauthenticating(k) == polls[k] \in {"unlinking", "writing"}

\* C10: a poll that fails with an authentication error takes the bot out of
\* Running and starts a re-login; every re-login ends with the bot Running
\* or with its failure logged and rethrown; and while the polling timer is
\* set the bot is never out of Running unless a re-login is under way or the
\* last one has failed that way.
C10_NeverSilentlyDegraded ==
  /\ [](pollingInterval /\ ~crashed /\ ~isRunning =>
          \/ \E k \in Ticks : Reauthenticating(k)
          \/ authOutcome = "failed")
  /\ [][\A k \in Ticks :
          /\ polls[k] = "checking" /\ Reauthenticating(k)' => ~isRunning'
          /\ Reauthenticating(k) /\ polls'[k] = "idle" =>
               \/ isRunning' /\ authOutcome' = "ok"
               \/ authOutcome' = "failed"]_vars

\* C10 witness: a re-login has succeeded, the bot is Running again and a
\* poll is under way.
C10_Witness ==
  /\ authOutcome = "ok"
  /\ isRunning
  /\ pollingInterval
  /\ \E k \in Ticks : polls[k] = "checking"

\* C20 (as claimed): no run of the polling timer callback rejects, and
\* after a failure the polling loop keeps running: no re-login has ended by
\* rethrowing its failure out of the callback, the process has not been
\* ended by an unhandled rejection, and while the timer is set and no
\* re-login is under way the bot is Running, so that the next run of the
\* callback polls and dispatches.
C20_PollingSurvivesFailures ==
  /\ authOutcome # "failed"
  /\ ~crashed
  /\ pollingInterval /\ ~(\E k \in Ticks : Reauthenticating(k)) => isRunning

\* The source bot is Degraded: the polling timer is set and isRunning is
\* false, because a re-login is under way or has failed.
Degraded == pollingInterval /\ ~isRunning

\* C24 (as claimed): while the source bot is Degraded
\* no inbound message is dispatched to the registered handlers: a run of the
\* timer callback calls handleMessage only while the bot is Running, also a
\* run that started before the bot became Degraded.
C24_NoDispatchWhileDegraded ==
  [][\A k \in Ticks :
       polls[k] = "checking" /\ polls'[k] = "dispatching" => ~Degraded]_vars

(***************************************************************************)
(* CLAIMS: TEXT RELAY AND CONTENT FILTER (checked under RelaySpec)         *)
(***************************************************************************)

\* C11 (as claimed): plain text is relayed unchanged in both directions: the
\* text handed to the destination send for a source text message is the
\* message text, and the text handed to the source send for a destination
\* text event is the event text, character for character, white space at
\* the ends included.
C11_TextUnchanged ==
  /\ relay.op = "forward" /\ relay.type = "text" /\ relay.sent # <<>> =>
       relay.sent = <<Plain(relay.text)>>
  /\ relay.op = "reverse" /\ relay.sent # <<>> =>
       relay.sent = <<Plain(relay.text)>>

\* The text matches a blocked term by prefix, letter case ignored on both
\* sides, after trimming.
MatchesIgnoringCase(words, text) ==
  \E word \in words : startsWith(toLowerCase(trim(text)), toLowerCase(word))

\* C15 (as claimed): a source message whose trimmed text starts, letter case
\* ignored, with a blocked term, whatever the letter case of the stored
\* term, is dropped: nothing is handed to the destination send for it.
C15_ForwardFilterDrops ==
  relay.op = "forward" /\ MatchesIgnoringCase(filters, relay.text) =>
    relay.sent = <<>>

\* C16 (as claimed): a destination event whose text matches a blocked term by
\* case-insensitive prefix is acknowledged with the filtered marker and
\* nothing is handed to the source send for it.
C16_ReverseFilterStops ==
  relay.op = "reverse" /\ MatchesIgnoringCase(filters, relay.text) =>
    relay.marker = "filtered" /\ relay.sent = <<>>

\* C27 (as claimed): every source message that is not filtered, and whose
\* topic is resolved and exists, produces exactly one send into the topic:
\* the unchanged text for type text, the media or a descriptive line for the
\* media types, a descriptive fallback text for every other type.
C27_OneSendPerMessage ==
  relay.op = "forward" /\ ~Blocked(filters, trim(toLowerCase(relay.text))) =>
    /\ Len(relay.sent) = 1
    /\ relay.type = "text" => relay.sent[1] = Plain(relay.text)
    /\ relay.type = "media" => relay.sent[1].form \in {"media", "fallback"}
    /\ relay.type = "other" => relay.sent[1] = Fallback(relay.text)

\* C26 (as claimed): every sendToTelegram call for a message of a sender
\* leaves the sender with a profile, created by the call when the sender had
\* none and otherwise with one more in its messageCount; and no step lowers
\* the messageCount of a profile or removes a profile.
C26_ProfileCounted ==
  [][\A s \in Senders :
       /\ userMappings'[s] >= userMappings[s]
       /\ forwards'[s] = forwards[s] + 1 =>
            IF userMappings[s] = NoProfile
              THEN userMappings'[s] # NoProfile
              ELSE userMappings'[s] = userMappings[s] + 1]_vars

\* C28 (as claimed): the reverse pipeline hands each media event to the
\* source's send operation of its kind: a photo to the photo send, a video
\* to the video send, a voice note to the voice send after conversion, a
\* document to the document send.
C28_SendOfSameKind ==
  relay.op = "media" => relay.sent = <<SourceCall(relay.type)>>

(***************************************************************************)
(* CLAIMS: BRIDGE LIFECYCLE (checked under LifecycleSpec)                  *)
(***************************************************************************)

\* C17 (as claimed): once a step of initialization has failed (the
\* persistence connection, the loading of the mappings, the temp directory
\* or the destination client with its listeners), the bridge is not enabled,
\* then or at any later time.
C17_FailedInitStaysDisabled == initFailure # "none" => ~enabled

\* The bot token or the chat id is missing or still the placeholder of the
\* sample configuration.
Misconfigured ==
  \/ telegramConfig.botToken \in {"missing", "placeholder"}
  \/ telegramConfig.chatId \in {"missing", "placeholder"}

C36_NothingRelayedWhileDisabled ==
  [][~enabled =>
       /\ \A p \in Procs : fw[p].pc = "idle" => fw'[p].pc = "idle"
       /\ \A h \in Handlers :
            tg[h].pc = "idle" => tg'[h].pc # "sendingText"]_vars

(***************************************************************************)
(* CLAIMS: HANDLER DISPATCH (checked under DispatchSpec)                   *)
(***************************************************************************)

\* The dispatcher has handled a message and returned.
Dispatched(d) == hm[d].started /\ hm[d].pc = "idle"

\* The handlers are invoked once each in registration order, and when the
\* dispatcher has returned every handler registered when it was called has
\* been invoked (one registered meanwhile may have been).
InvokedEach(d) ==
  /\ hm[d].invoked = Indices(1, Len(hm[d].invoked))
  /\ Dispatched(d) =>
       Len(hm[d].invoked) >= hm[d].atStart /\ Len(hm[d].invoked) <= messageHandlers

C21_StoppedAfterCreations ==
  Stopped =>
    /\ \A p \in Procs : fw[p].pc \notin InGetOrCreate
    /\ \A t \in Threads : creatingTopics[t] # "pending"
    /\ ~listening
    /\ tempFiles = {}

PathsOf(h) == {tmp[h].path, tmp[h].converted, tmp[h].upload} \ {<<>>}

\* C38 (as claimed): the temp paths of two handlers on their way are
\* distinct, and the file a handler is about to read (the original that
\* ffmpeg converts, the converted file that sendVoiceMessage reads, the file
\* a send uploads) is there and holds the bytes of the handler's own event.
C38_TempFilesNotShared ==
  /\ \A h, g \in Handlers : h # g => PathsOf(h) \cap PathsOf(g) = {}
  /\ \A h \in Handlers :
       /\ tmp[h].pc = "transcode" => disk[tmp[h].path] = h
       /\ tmp[h].pc = "voiceRead" => disk[tmp[h].converted] = h
       /\ tmp[h].pc = "voiceSend" => disk[tmp[h].upload] = h
       /\ tmp[h].pc = "mediaSend" /\ tmp[h].kind = "photo" => disk[tmp[h].path] = h

(***************************************************************************)
(* CLAIMS: COMMANDS (checked under CommandSpec)                            *)
(***************************************************************************)

\* C39: a message whose text starts with '.' is never forwarded to the
\* bridge; the handler of an adminOnly command is called only for a sender
\* whose username is in config.admin.users; and for any other sender the
\* 'Admin only' reply is sent and the handler is not called.
C39_CommandsGuarded ==
  /\ Len(cm.text) >= 1 /\ cm.text[1] = "." => ~cm.forwarded
  /\ cm.command = "adminOnly" /\ cm.ran => cm.sender \in adminUsers
  /\ cm.command = "adminOnly" /\ cm.sender \notin adminUsers =>
       cm.replied /\ ~cm.ran

C39_Witness ==
  /\ cm.pc = "idle" /\ cm.command = "adminOnly"
  /\ cm.sender \notin adminUsers /\ adminUsers # {}
  /\ cm.replied /\ ~cm.ran /\ ~cm.forwarded

(***************************************************************************)
(* CLAIMS: TIMERS (checked under TimerSpec)                                *)
(***************************************************************************)

\* C40: after any sequence of login, startMessagePolling,
\* startMessageRequestsMonitor and disconnect calls the runtime holds at most
\* one polling interval and at most one monitor interval, the one the bot's
\* field names, and after a disconnect it holds none.
C40_AtMostOneTimer ==
  /\ \A kind \in {"polling", "monitor"} :
       /\ Cardinality({timer \in activeTimers : timer.kind = kind}) <= 1
       /\ \A timer \in activeTimers : timer.kind = kind => timer.id = intervals[kind]
  /\ botCall = "disconnect" => activeTimers = {}

\* A second start has cancelled the interval of the first.
C40_Witness ==
  /\ botCall \in {"startMessagePolling", "startMessageRequestsMonitor"}
  /\ nextTimer > 2
  /\ Cardinality(activeTimers) = 1
  /\ \E timer \in activeTimers : timer.id = nextTimer - 1 /\ timer.id > 1

====
